---------------------------- MODULE Spec2Model ----------------------------
(***************************************************************************)
(* Material-balance framework: the oil and gas material-balance engines,   *)
(* the PVT table they query, the unit converter that normalises their      *)
(* inputs, and the gas-cap calibration search.                             *)
(*                                                                         *)
(* Numbers.  A Python/numpy float is modelled as a pair <<n, d>>:          *)
(*   d > 0   the rational n/d in lowest terms,                             *)
(*   <<1,0>> +inf, <<-1,0>> -inf, <<0,0>> NaN  (numpy scalar arithmetic    *)
(*   yields these on division by zero instead of raising).                 *)
(* Rounding error of binary floating point is not modelled.                *)
(***************************************************************************)
EXTENDS Integers, Sequences, FiniteSets, TLC

-----------------------------------------------------------------------------
(* Float arithmetic *)

Abs(x) == IF x < 0 THEN -x ELSE x

Sign(x) == IF x < 0 THEN -1 ELSE IF x > 0 THEN 1 ELSE 0

RECURSIVE Gcd(_, _)
Gcd(a, b) == IF b = 0 THEN a ELSE Gcd(b, a % b)

Norm(n, d) ==
    IF d = 0 THEN <<Sign(n), 0>>
    ELSE IF d = 1 THEN <<n, 1>>
    ELSE LET g == Gcd(Abs(n), Abs(d))
             s == Sign(d)
         IN  <<(s * n) \div g, (s * d) \div g>>

Q(n, d) == Norm(n, d)

Zero == <<0, 1>>
One  == <<1, 1>>
NaN  == <<0, 0>>
PInf == <<1, 0>>
NInf == <<-1, 0>>

\* Python's None (never the value of a float: no float has denominator -1)
None == <<0, -1>>

IsNaN(a)    == a = NaN
IsInf(a)    == a[2] = 0 /\ a[1] # 0
IsFinite(a) == a[2] > 0

FNeg(a) == <<-a[1], a[2]>>

FAdd(a, b) ==
    IF IsNaN(a) \/ IsNaN(b) THEN NaN
    ELSE IF IsInf(a) /\ IsInf(b) THEN (IF a = b THEN a ELSE NaN)
    ELSE IF IsInf(a) THEN a
    ELSE IF IsInf(b) THEN b
    ELSE IF a[2] = 1 /\ b[2] = 1 THEN <<a[1] + b[1], 1>>
    ELSE LET g == Gcd(a[2], b[2])
         IN  Norm(a[1] * (b[2] \div g) + b[1] * (a[2] \div g), (a[2] \div g) * b[2])

FSub(a, b) == FAdd(a, FNeg(b))

\* the product, cancelling common factors crosswise before multiplying
FMul(a, b) ==
    IF a[2] = 0 \/ b[2] = 0 THEN Norm(a[1] * b[1], 0)
    ELSE IF a[2] = 1 /\ b[2] = 1 THEN <<a[1] * b[1], 1>>
    ELSE LET g1 == Gcd(Abs(a[1]), b[2])
             g2 == Gcd(Abs(b[1]), a[2])
         IN  Norm((a[1] \div g1) * (b[1] \div g2), (a[2] \div g2) * (b[2] \div g1))

FInv(a) ==
    IF IsNaN(a) THEN NaN
    ELSE IF IsInf(a) THEN Zero
    ELSE IF a[1] = 0 THEN PInf
    ELSE Norm(a[2], a[1])

\* numpy float64 division: x/0 is +-inf, 0/0 is NaN, no exception
FDiv(a, b) == FMul(a, FInv(b))

\* IEEE comparisons: every comparison with NaN is false
FLe(a, b) ==
    IF IsNaN(a) \/ IsNaN(b) THEN FALSE
    ELSE IF IsInf(a) /\ IsInf(b) THEN a[1] <= b[1]
    ELSE IF IsInf(a) THEN a[1] < 0
    ELSE IF IsInf(b) THEN b[1] > 0
    ELSE LET g == Gcd(a[2], b[2]) IN a[1] * (b[2] \div g) <= b[1] * (a[2] \div g)

FLt(a, b) ==
    IF IsNaN(a) \/ IsNaN(b) THEN FALSE
    ELSE IF IsInf(a) /\ IsInf(b) THEN a[1] < b[1]
    ELSE IF IsInf(a) THEN a[1] < 0
    ELSE IF IsInf(b) THEN b[1] > 0
    ELSE LET g == Gcd(a[2], b[2]) IN a[1] * (b[2] \div g) < b[1] * (a[2] \div g)

FAbs(a) == <<Abs(a[1]), a[2]>>

-----------------------------------------------------------------------------
(* Python values: an ndarray, or the float a one-element array collapses to *)

NdArray(s) == [t |-> "ndarray", v |-> s]
PyFloat(x) == [t |-> "float", v |-> <<x>>]

IsArray(a) == a.t = "ndarray"

\* len(a): TypeError on a float
HasLen(a) == IsArray(a)
PyLen(a)  == Len(a.v)

\* a[i] (0-based i): TypeError on a float, IndexError past the end
Subscriptable(a, i) == IsArray(a) /\ i + 1 <= Len(a.v)
At(a, i) == a.v[i + 1]

RECURSIVE Reverse(_)
Reverse(s) == IF s = << >> THEN << >> ELSE Append(Reverse(Tail(s)), Head(s))

-----------------------------------------------------------------------------
(* units.py *)

METRIC == "metric"
FIELD  == "field"
UnitSystem == {METRIC, FIELD}

PSIA_TO_KGFCM2 == Q(703069, 10000000)
STB_TO_M3      == Q(158987, 1000000)
SCF_TO_M3      == Q(283168, 10000000)

\* UnitConverter.to_array
to_array(value) == IF IsArray(value) THEN value ELSE NdArray(value.v)

\* UnitConverter.to_scalar_if_single
to_scalar_if_single(arr) ==
    IF Len(arr.v) = 1 THEN PyFloat(arr.v[1]) ELSE arr

Scale(arr, f) == NdArray([i \in 1..Len(arr.v) |-> FMul(arr.v[i], f)])

pressure_to_metric(pressure, from_system) ==
    LET p == to_array(pressure)
        result == IF from_system = FIELD THEN Scale(p, PSIA_TO_KGFCM2) ELSE p
    IN  to_scalar_if_single(result)

oil_volume_to_metric(volume, from_system) ==
    LET v == to_array(volume)
        result == IF from_system = FIELD THEN Scale(v, STB_TO_M3) ELSE v
    IN  to_scalar_if_single(result)

gas_volume_to_metric(volume, from_system) ==
    LET v == to_array(volume)
        result == IF from_system = FIELD THEN Scale(v, SCF_TO_M3) ELSE v
    IN  to_scalar_if_single(result)

\* (temp - 32) * 5 / 9 + 273.15, or temp + 273.15 for a metric (Celsius) input
temperature_to_kelvin(temp, from_system) ==
    IF from_system = FIELD
    THEN FAdd(FDiv(FMul(FSub(temp, Q(32, 1)), Q(5, 1)), Q(9, 1)), Q(27315, 100))
    ELSE FAdd(temp, Q(27315, 100))

-----------------------------------------------------------------------------
(* pvt_properties.py *)

PropNames == <<"Bo", "Rs", "co", "Bg", "z", "cg", "Bw", "cw", "cf">>
PropSet   == {PropNames[i] : i \in 1..Len(PropNames)}

\* a property that was not supplied (the dataclass default None)
PyNone == [t |-> "None", v |-> << >>]

RB_OVER_SCF    == FDiv(STB_TO_M3, SCF_TO_M3)
SCFSTB_TO_M3M3 == FDiv(SCF_TO_M3, STB_TO_M3)
KGFCM2_TO_PSIA == Q(142233, 10000)

\* the table with the gas FVF of a FIELD input taken as a plain ratio
PVTPropertiesBgAsRatio(pressure, unit_system, props) ==
    [pressure |-> pressure_to_metric(NdArray(pressure), unit_system),
     unit_system |-> METRIC,
     props |-> [a \in PropSet |->
        IF props[a] = << >> THEN PyNone
        ELSE LET value == NdArray(props[a]) IN
             IF unit_system = FIELD
             THEN IF a \in {"Bo", "Bw", "Bg"} THEN to_scalar_if_single(value)
                  ELSE IF a = "Rs" THEN to_scalar_if_single(Scale(value, SCFSTB_TO_M3M3))
                  ELSE IF a \in {"co", "cg", "cw", "cf"}
                       THEN to_scalar_if_single(Scale(value, KGFCM2_TO_PSIA))
                  ELSE value
             ELSE value]]

\* PVTProperties.__post_init__: the pressure always passes through the
\* converter; a property passes through it only when the table is FIELD
\* ('z' never does).
PVTProperties(pressure, unit_system, props) ==
    [pressure |-> pressure_to_metric(NdArray(pressure), unit_system),
     unit_system |-> METRIC,
     props |-> [a \in PropSet |->
        IF props[a] = << >> THEN PyNone
        ELSE LET value == NdArray(props[a]) IN
             IF unit_system = FIELD
             THEN IF a \in {"Bo", "Bw"} THEN to_scalar_if_single(value)
                  ELSE IF a = "Bg" THEN to_scalar_if_single(Scale(value, RB_OVER_SCF))
                  ELSE IF a = "Rs" THEN to_scalar_if_single(Scale(value, SCFSTB_TO_M3M3))
                  ELSE IF a \in {"co", "cg", "cw", "cf"}
                       THEN to_scalar_if_single(Scale(value, KGFCM2_TO_PSIA))
                  ELSE value
             ELSE value]]

\* np.interp(x, xp, fp) for xp increasing: the boundary value is held outside
\* the sampled range; inside, slope * (x - xp[j]) + fp[j] on the segment
\* xp[j] <= x < xp[j+1].
NpInterp(x, xp, fp) ==
    LET n == Len(xp) IN
    IF IsNaN(x) THEN NaN
    ELSE IF FLt(x, xp[1]) THEN fp[1]
    ELSE IF FLe(xp[n], x) THEN fp[n]
    ELSE LET j == CHOOSE k \in 1..(n - 1) : FLe(xp[k], x) /\ FLt(x, xp[k + 1])
             slope == FDiv(FSub(fp[j + 1], fp[j]), FSub(xp[j + 1], xp[j]))
         IN  FAdd(FMul(slope, FSub(x, xp[j])), fp[j])

\* the lookup that reverses the pressures of a decreasing table but not the
\* property values
InterpolateReversingPressureOnly(table, property_name, target_pressure) ==
    LET prop_values == table.props[property_name] IN
    IF prop_values.t = "None" THEN [exc |-> "ValueError", v |-> NaN]
    ELSE IF ~HasLen(table.pressure) THEN [exc |-> "TypeError", v |-> NaN]
    ELSE IF PyLen(table.pressure) > 1
            /\ FLt(At(table.pressure, PyLen(table.pressure) - 1), At(table.pressure, 0))
         THEN [exc |-> "none",
               v |-> NpInterp(target_pressure, Reverse(table.pressure.v),
                              prop_values.v)]
         ELSE [exc |-> "none",
               v |-> NpInterp(target_pressure, table.pressure.v, prop_values.v)]

\* PVTProperties.interpolate_property.  Result [exc, v].
interpolate_property(table, property_name, target_pressure) ==
    LET prop_values == table.props[property_name] IN
    IF prop_values.t = "None" THEN [exc |-> "ValueError", v |-> NaN]
    ELSE IF ~HasLen(table.pressure) THEN [exc |-> "TypeError", v |-> NaN]
    ELSE IF PyLen(table.pressure) > 1
            /\ FLt(At(table.pressure, PyLen(table.pressure) - 1), At(table.pressure, 0))
         THEN [exc |-> "none",
               v |-> NpInterp(target_pressure, Reverse(table.pressure.v),
                              Reverse(prop_values.v))]
         ELSE [exc |-> "none",
               v |-> NpInterp(target_pressure, table.pressure.v, prop_values.v)]

\* PVTProperties.get_properties_at_pressure.  Result [exc, v]; v maps every
\* property name to its interpolated value, or to None when the key is absent.
get_properties_at_pressure(table, target_pressure) ==
    IF ~HasLen(table.pressure) /\ \E a \in PropSet : table.props[a].t # "None"
    THEN [exc |-> "TypeError", v |-> [a \in PropSet |-> None]]
    ELSE [exc |-> "none",
          v |-> [a \in PropSet |->
                    IF table.props[a].t = "None" THEN None
                    ELSE interpolate_property(table, a, target_pressure).v]]

\* props.get(key, default)
DictGet(props, key, default) == IF props[key] = None THEN default ELSE props[key]

-----------------------------------------------------------------------------
(* oil_reservoir.py: OilReservoir *)

NoObject == [constructed |-> "no"]

\* OilReservoir.__init__.  props['Bo'] / props['Rs'] raise KeyError when the
\* table lacks them.
OilReservoir(table, initial_pressure, reservoir_temperature, m, aquifer_influx, unit_system) ==
    LET Build(Pi, T, ip) ==
            IF ip.exc # "none" THEN [constructed |-> ip.exc]
            ELSE IF ip.v["Bo"] = None \/ ip.v["Rs"] = None
            THEN [constructed |-> "KeyError"]
            ELSE [constructed |-> "ok",
                  unit_system |-> unit_system,
                  Pi |-> Pi, T |-> T, m |-> m, aquifer_influx |-> aquifer_influx,
                  initial_props |-> ip.v,
                  Boi |-> ip.v["Bo"], Rsi |-> ip.v["Rs"], Bgi |-> ip.v["Bg"],
                  Eo_values |-> << >>, Eg_values |-> << >>, Efw_values |-> << >>,
                  Et_values |-> << >>, F_values |-> << >>, pressure_values |-> << >>,
                  Eo |-> None, Eg |-> None, Efw |-> None, Et |-> None, F |-> None,
                  last_pressure |-> None]
        At_Pi(Pi) == Build(Pi, temperature_to_kelvin(reservoir_temperature, unit_system),
                           get_properties_at_pressure(table, Pi))
    IN  At_Pi(pressure_to_metric(PyFloat(initial_pressure), unit_system).v[1])

DEFAULT_COMPRESSIBILITY == Q(43, 1000000)
Swi == Q(1, 5)

\* the expansion terms with a gas-cap term also at m = 0
ExpansionTermsGasCapAtZero(self, table, pressure) ==
    LET Terms(props) ==
            LET From(Bo, Rs, Bg, cw, cf, delta_P) ==
                    <<FAdd(FSub(Bo, self.Boi), FMul(FSub(self.Rsi, Rs), Bg)),
                      IF FLe(Zero, self.m) /\ self.Bgi # None
                      THEN FMul(self.Boi, FSub(FDiv(Bg, self.Bgi), One))
                      ELSE Zero,
                      FMul(FMul(FMul(FAdd(One, self.m), self.Boi),
                                FAdd(FMul(cw, Swi), cf)), delta_P)>>
            IN  From(props["Bo"], props["Rs"], DictGet(props, "Bg", Zero),
                     DictGet(props, "cw", DEFAULT_COMPRESSIBILITY),
                     DictGet(props, "cf", DEFAULT_COMPRESSIBILITY),
                     FSub(self.Pi, pressure))
    IN  Terms(get_properties_at_pressure(table, pressure).v)

\* OilReservoir.calculate_expansion_terms: <<Eo, Eg, Efw>>
calculate_expansion_terms(self, table, pressure) ==
    LET Terms(props) ==
            LET From(Bo, Rs, Bg, cw, cf, delta_P) ==
                    <<FAdd(FSub(Bo, self.Boi), FMul(FSub(self.Rsi, Rs), Bg)),
                      IF FLt(Zero, self.m) /\ self.Bgi # None
                      THEN FMul(self.Boi, FSub(FDiv(Bg, self.Bgi), One))
                      ELSE Zero,
                      FMul(FMul(FMul(FAdd(One, self.m), self.Boi),
                                FAdd(FMul(cw, Swi), cf)), delta_P)>>
            IN  From(props["Bo"], props["Rs"], DictGet(props, "Bg", Zero),
                     DictGet(props, "cw", DEFAULT_COMPRESSIBILITY),
                     DictGet(props, "cf", DEFAULT_COMPRESSIBILITY),
                     FSub(self.Pi, pressure))
    IN  Terms(get_properties_at_pressure(table, pressure).v)

\* the store of the last-point values, also appending F to the breakdown
StoreLastAndAppend(self, Eo, Eg, Efw, Et, F, pressure) ==
    [self EXCEPT !.Eo = Eo, !.Eg = Eg, !.Efw = Efw, !.Et = Et, !.F = F,
                 !.last_pressure = pressure, !.F_values = Append(@, F)]

\* the assignments of calculate_STOIIP to the "last calculated" fields
StoreLast(self, Eo, Eg, Efw, Et, F, pressure) ==
    [self EXCEPT !.Eo = Eo, !.Eg = Eg, !.Efw = Efw, !.Et = Et, !.F = F,
                 !.last_pressure = pressure]

\* the guard of calculate_STOIIP: raise ValueError when Et <= 0
EtRaises(Et) == FLe(Et, Zero)

\* OilReservoir.calculate_STOIIP.  Result [self, exc, v].
calculate_STOIIP(self, table, Np, Gp, Wp, pressure, We) ==
    LET Finish(stored, F, Et) ==
            IF EtRaises(Et)
            THEN [self |-> stored, exc |-> "ValueError", v |-> NaN]
            ELSE [self |-> stored, exc |-> "none", v |-> FDiv(F, Et)]
        Store(Eo, Eg, Efw, F, Et) ==
            Finish(StoreLast(self, Eo, Eg, Efw, Et, F, pressure), F, Et)
        Solve(Bo, Rs, Bg, Bw, terms) ==
            Store(terms[1], terms[2], terms[3],
                  FSub(FAdd(FAdd(FMul(Np, Bo), FMul(FSub(Gp, FMul(Np, Rs)), Bg)),
                            FMul(Wp, Bw)), We),
                  FAdd(FAdd(terms[1], FMul(self.m, terms[2])), terms[3]))
        WithProps(props) ==
            Solve(props["Bo"], props["Rs"], DictGet(props, "Bg", Zero),
                  DictGet(props, "Bw", One),
                  calculate_expansion_terms(self, table, pressure))
    IN  WithProps(get_properties_at_pressure(table, pressure).v)

-----------------------------------------------------------------------------
(* numpy helpers used by the batch solvers *)

RECURSIVE SeqSum(_)
SeqSum(s) == IF s = << >> THEN Zero ELSE FAdd(Head(s), SeqSum(Tail(s)))

\* a[~np.isnan(a)]
RECURSIVE DropNaN(_)
DropNaN(s) ==
    IF s = << >> THEN << >>
    ELSE IF IsNaN(Head(s)) THEN DropNaN(Tail(s))
    ELSE <<Head(s)>> \o DropNaN(Tail(s))

RECURSIVE Insert(_, _)
Insert(x, s) ==
    IF s = << >> THEN <<x>>
    ELSE IF FLe(x, Head(s)) THEN <<x>> \o s
    ELSE <<Head(s)>> \o Insert(x, Tail(s))

RECURSIVE Sorted(_)
Sorted(s) == IF s = << >> THEN << >> ELSE Insert(Head(s), Sorted(Tail(s)))

NpMean(a) == FDiv(SeqSum(a), Q(Len(a), 1))

NpMedian(a) ==
    LET Middle(s, n) ==
            IF n % 2 = 1 THEN s[(n + 1) \div 2]
            ELSE FDiv(FAdd(s[n \div 2], s[n \div 2 + 1]), Q(2, 1))
    IN  Middle(Sorted(a), Len(a))

\* np.std squared: the mean of the squared deviations from the mean (ddof = 0)
NpVar(a) ==
    LET Around(mu) == NpMean([i \in 1..Len(a) |-> FMul(FSub(a[i], mu), FSub(a[i], mu))])
    IN  Around(NpMean(a))

\* the sample standard deviation (ddof = 1) in place of np.std
NpStdSample(a) ==
    [sqrt |-> FDiv(FMul(NpVar(a), Q(Len(a), 1)), Q(Len(a) - 1, 1))]

\* np.std(a); the square root is kept symbolic
NpStd(a) == [sqrt |-> NpVar(a)]

NpMin(a) == CHOOSE x \in {a[i] : i \in 1..Len(a)} :
                \A j \in 1..Len(a) : FLe(x, a[j])
NpMax(a) == CHOOSE x \in {a[i] : i \in 1..Len(a)} :
                \A j \in 1..Len(a) : FLe(a[j], x)

\* the statistics dictionary both batch solvers build from the valid entries;
\* coefficient_of_variation is std / mean, or np.inf when the mean is 0
Statistics(valid) ==
    LET Dict(mean, std) ==
            [mean   |-> mean,
             median |-> NpMedian(valid),
             std    |-> std,
             min    |-> NpMin(valid),
             max    |-> NpMax(valid),
             count  |-> Len(valid),
             coefficient_of_variation |->
                IF mean # Zero
                THEN [inf |-> FALSE, num |-> std, den |-> mean]
                ELSE [inf |-> TRUE, num |-> [sqrt |-> Zero], den |-> One]]
    IN  Dict(NpMean(valid), NpStd(valid))

NoStatistics == [count |-> 0]

\* np.zeros(n)
NpZeros(n) == NdArray([i \in 1..n |-> Zero])

-----------------------------------------------------------------------------
(* oil_reservoir.py: ProductionData and the batch solver *)

\* ProductionData.__post_init__: time stays an array; Np, Gp, Wp and pressure
\* pass through the converter, which collapses a one-element array to a float
ProductionData(time, Np, Gp, Wp, pressure, unit_system) ==
    [time |-> NdArray(time),
     Np |-> oil_volume_to_metric(NdArray(Np), unit_system),
     Gp |-> gas_volume_to_metric(NdArray(Gp), unit_system),
     Wp |-> oil_volume_to_metric(NdArray(Wp), unit_system),
     pressure |-> pressure_to_metric(NdArray(pressure), unit_system),
     unit_system |-> METRIC]

\* "Clear previous arrays"
\* the reset of the breakdown lists, also resetting the gas-cap ratio
ClearListsAndM(self) ==
    [self EXCEPT !.Eo_values = << >>, !.Eg_values = << >>, !.Efw_values = << >>,
                 !.Et_values = << >>, !.F_values = << >>, !.pressure_values = << >>,
                 !.m = Zero]

ClearLists(self) ==
    [self EXCEPT !.Eo_values = << >>, !.Eg_values = << >>, !.Efw_values = << >>,
                 !.Et_values = << >>, !.F_values = << >>, !.pressure_values = << >>]

\* the appends of the try branch: the instance's last calculated values
AppendLast(self, p) ==
    [self EXCEPT !.Eo_values = Append(@, self.Eo), !.Eg_values = Append(@, self.Eg),
                 !.Efw_values = Append(@, self.Efw), !.Et_values = Append(@, self.Et),
                 !.F_values = Append(@, self.F),
                 !.pressure_values = Append(@, p)]

\* the first five appends of the except branch
AppendNaN(self) ==
    [self EXCEPT !.Eo_values = Append(@, NaN), !.Eg_values = Append(@, NaN),
                 !.Efw_values = Append(@, NaN), !.Et_values = Append(@, NaN),
                 !.F_values = Append(@, NaN)]

AppendPressure(self, p) ==
    [self EXCEPT !.pressure_values = Append(@, p)]

\* the loop of calculate_STOIIP_from_production_data from index i (0-based) on.
\* Result [self, exc, N_values]; exc is an exception that left the loop.
RECURSIVE STOIIPLoop(_, _, _, _, _, _, _)
STOIIPLoop(self, table, pd, We_values, i, n_points, N_values) ==
    IF i >= n_points THEN [self |-> self, exc |-> "none", N_values |-> N_values]
    ELSE
    LET Except(s1, nv) ==
            IF ~Subscriptable(pd.pressure, i)
            THEN [self |-> s1,
                  exc |-> IF IsArray(pd.pressure) THEN "IndexError" ELSE "TypeError",
                  N_values |-> nv]
            ELSE STOIIPLoop(AppendPressure(s1, At(pd.pressure, i)), table, pd,
                            We_values, i + 1, n_points, nv)
        Try(r) ==
            IF r.exc = "none"
            THEN STOIIPLoop(AppendLast(r.self, At(pd.pressure, i)), table, pd, We_values,
                            i + 1, n_points, [N_values EXCEPT ![i + 1] = r.v])
            ELSE Except(AppendNaN(r.self), [N_values EXCEPT ![i + 1] = NaN])
    IN  IF /\ Subscriptable(pd.Np, i) /\ Subscriptable(pd.Gp, i)
           /\ Subscriptable(pd.Wp, i) /\ Subscriptable(pd.pressure, i)
           /\ Subscriptable(We_values, i)
        THEN Try(calculate_STOIIP(self, table, At(pd.Np, i), At(pd.Gp, i), At(pd.Wp, i),
                                  At(pd.pressure, i), At(We_values, i)))
        ELSE Except(AppendNaN(self), [N_values EXCEPT ![i + 1] = NaN])

\* OilReservoir.calculate_STOIIP_from_production_data.  We_values is an
\* ndarray, or PyNone for the default.  Result [self, exc, N_values, statistics].
calculate_STOIIP_from_production_data(self, table, production_data, We_values) ==
    LET Aggregate(loop, valid_N) ==
            IF loop.exc # "none"
            THEN [self |-> loop.self, exc |-> loop.exc, N_values |-> << >>,
                  statistics |-> NoStatistics]
            ELSE IF Len(valid_N) = 0
            THEN [self |-> loop.self, exc |-> "ValueError", N_values |-> << >>,
                  statistics |-> NoStatistics]
            ELSE [self |-> loop.self, exc |-> "none", N_values |-> loop.N_values,
                  statistics |-> Statistics(valid_N)]
        After(loop) == Aggregate(loop, DropNaN(loop.N_values))
        Run(n_points) ==
            After(STOIIPLoop(ClearLists(self), table, production_data,
                             IF We_values = PyNone THEN NpZeros(n_points) ELSE We_values,
                             0, n_points, [i \in 1..n_points |-> Zero]))
    IN  Run(PyLen(production_data.time))

-----------------------------------------------------------------------------
(* gas_reservoir.py *)

\* GasProductionData.__post_init__
GasProductionData(time, Gp, Wp, pressure, unit_system) ==
    [time |-> NdArray(time),
     Gp |-> gas_volume_to_metric(NdArray(Gp), unit_system),
     Wp |-> oil_volume_to_metric(NdArray(Wp), unit_system),
     pressure |-> pressure_to_metric(NdArray(pressure), unit_system),
     unit_system |-> METRIC]

\* the constructor with the check of Bg only
GasReservoirBgOnly(table, initial_pressure, reservoir_temperature, aquifer_influx, unit_system) ==
    LET Build(Pi, T, ip) ==
            IF ip.exc # "none" THEN [constructed |-> ip.exc]
            ELSE IF ip.v["Bg"] = None
            THEN [constructed |-> "ValueError"]
            ELSE [constructed |-> "ok",
                  unit_system |-> unit_system,
                  Pi |-> Pi, T |-> T, aquifer_influx |-> aquifer_influx,
                  initial_props |-> ip.v,
                  Bgi |-> ip.v["Bg"], Zi |-> ip.v["z"]]
        At_Pi(Pi) == Build(Pi, temperature_to_kelvin(reservoir_temperature, unit_system),
                           get_properties_at_pressure(table, Pi))
    IN  At_Pi(pressure_to_metric(PyFloat(initial_pressure), unit_system).v[1])

\* GasReservoir.__init__: ValueError when the table has no Bg or no z
GasReservoir(table, initial_pressure, reservoir_temperature, aquifer_influx, unit_system) ==
    LET Build(Pi, T, ip) ==
            IF ip.exc # "none" THEN [constructed |-> ip.exc]
            ELSE IF ip.v["Bg"] = None \/ ip.v["z"] = None
            THEN [constructed |-> "ValueError"]
            ELSE [constructed |-> "ok",
                  unit_system |-> unit_system,
                  Pi |-> Pi, T |-> T, aquifer_influx |-> aquifer_influx,
                  initial_props |-> ip.v,
                  Bgi |-> ip.v["Bg"], Zi |-> ip.v["z"]]
        At_Pi(Pi) == Build(Pi, temperature_to_kelvin(reservoir_temperature, unit_system),
                           get_properties_at_pressure(table, Pi))
    IN  At_Pi(pressure_to_metric(PyFloat(initial_pressure), unit_system).v[1])

\* abs(x) < 1e-10, computed without leaving 32-bit integers:
\* |n|/d < 10^-10  iff  |n| * 10^5 < d / 10^5
BelowTolerance(x) ==
    /\ IsFinite(x)
    /\ Abs(x[1]) <= 20000
    /\ Abs(x[1]) * 100000 < (x[2] + 99999) \div 100000

\* GasReservoir.calculate_GIIP.  Result [exc, v].
calculate_GIIP(self, table, Gp, pressure, Wp, We) ==
    LET Quotient(numerator, denominator) ==
            IF BelowTolerance(denominator) THEN [exc |-> "ValueError", v |-> NaN]
            ELSE [exc |-> "none", v |-> FDiv(numerator, denominator)]
        Balance(Bg, Bw) ==
            IF self.aquifer_influx \/ FLt(Zero, We) \/ FLt(Zero, Wp)
            THEN Quotient(FAdd(FSub(FMul(Gp, Bg), We), FMul(Wp, Bw)), FSub(Bg, self.Bgi))
            ELSE Quotient(Gp, FSub(FDiv(Bg, self.Bgi), One))
        WithProps(props) == Balance(props["Bg"], DictGet(props, "Bw", One))
    IN  WithProps(get_properties_at_pressure(table, pressure).v)

\* the P/Z method always taking z from the table
PzMethodTableZ(self, table, Gp, pressure, z) ==
    LET Solve(pz, pzi) ==
            IF BelowTolerance(FSub(pzi, pz)) THEN [exc |-> "ValueError", v |-> NaN]
            ELSE [exc |-> "none", v |-> FDiv(Gp, FSub(One, FDiv(pz, pzi)))]
    IN  Solve(FDiv(pressure, get_properties_at_pressure(table, pressure).v["z"]),
              FDiv(self.Pi, self.Zi))

\* GasReservoir.calculate_GIIP_pz_method; z = None asks for the table's z.
\* A caller's z is a Python float: pressure / 0.0 raises ZeroDivisionError.
calculate_GIIP_pz_method(self, table, Gp, pressure, z) ==
    LET Solve(pz, pzi) ==
            IF BelowTolerance(FSub(pzi, pz)) THEN [exc |-> "ValueError", v |-> NaN]
            ELSE [exc |-> "none", v |-> FDiv(Gp, FSub(One, FDiv(pz, pzi)))]
    IN  IF z # None /\ z = Zero THEN [exc |-> "ZeroDivisionError", v |-> NaN]
        ELSE Solve(FDiv(pressure,
                        IF z = None
                        THEN get_properties_at_pressure(table, pressure).v["z"]
                        ELSE z),
                   FDiv(self.Pi, self.Zi))

\* the loop of calculate_GIIP_from_production_data: G_values
RECURSIVE GIIPLoop(_, _, _, _, _, _, _, _)
GIIPLoop(self, table, pd, We_values, method, i, n_points, G_values) ==
    IF i >= n_points THEN G_values
    ELSE
    LET Point(argsOk, r) ==
            GIIPLoop(self, table, pd, We_values, method, i + 1, n_points,
                     [G_values EXCEPT ![i + 1] =
                         IF argsOk /\ r.exc = "none" THEN r.v ELSE NaN])
    IN  IF method = "pz"
        THEN Point(Subscriptable(pd.Gp, i) /\ Subscriptable(pd.pressure, i),
                   calculate_GIIP_pz_method(self, table, At(pd.Gp, i),
                                            At(pd.pressure, i), None))
        ELSE Point(/\ Subscriptable(pd.Gp, i) /\ Subscriptable(pd.pressure, i)
                   /\ Subscriptable(pd.Wp, i) /\ Subscriptable(We_values, i),
                   calculate_GIIP(self, table, At(pd.Gp, i), At(pd.pressure, i),
                                  At(pd.Wp, i), At(We_values, i)))

\* the batch solve that rejects a method other than 'standard' and 'pz'
BatchGIIPRejectingMethod(self, table, production_data, We_values, method) ==
    LET Aggregate(G_values, valid_G) ==
            IF Len(valid_G) = 0
            THEN [exc |-> "ValueError", G_values |-> << >>, statistics |-> NoStatistics]
            ELSE [exc |-> "none", G_values |-> G_values,
                  statistics |-> Statistics(valid_G)]
        After(G_values) == Aggregate(G_values, DropNaN(G_values))
        Run(n_points) ==
            After(GIIPLoop(self, table, production_data,
                           IF We_values = PyNone THEN NpZeros(n_points) ELSE We_values,
                           method, 0, n_points, [i \in 1..n_points |-> Zero]))
    IN  IF method \notin {"standard", "pz"}
        THEN [exc |-> "ValueError", G_values |-> << >>, statistics |-> NoStatistics]
        ELSE Run(PyLen(production_data.time))

\* GasReservoir.calculate_GIIP_from_production_data.
\* Result [exc, G_values, statistics].
calculate_GIIP_from_production_data(self, table, production_data, We_values, method) ==
    LET Aggregate(G_values, valid_G) ==
            IF Len(valid_G) = 0
            THEN [exc |-> "ValueError", G_values |-> << >>, statistics |-> NoStatistics]
            ELSE [exc |-> "none", G_values |-> G_values,
                  statistics |-> Statistics(valid_G)]
        After(G_values) == Aggregate(G_values, DropNaN(G_values))
        Run(n_points) ==
            After(GIIPLoop(self, table, production_data,
                           IF We_values = PyNone THEN NpZeros(n_points) ELSE We_values,
                           method, 0, n_points, [i \in 1..n_points |-> Zero]))
    IN  Run(PyLen(production_data.time))

-----------------------------------------------------------------------------
(* oil_reservoir.py: determine_optimal_m *)

\* np.polyfit(x, y, 1) from the centred sums: <<slope, intercept>>; a
\* constant x has the horizontal line through the mean as least-squares fit
PolyfitFrom(xm, ym, Sxx, Sxy) ==
    IF Sxx = Zero THEN <<Zero, ym>>
    ELSE <<FDiv(Sxy, Sxx), FSub(ym, FMul(FDiv(Sxy, Sxx), xm))>>

Centred(x, xm) == [i \in 1..Len(x) |-> FSub(x[i], xm)]

Dot(u, v) == SeqSum([i \in 1..Len(u) |-> FMul(u[i], v[i])])

Polyfit1(x, y) ==
    PolyfitFrom(NpMean(x), NpMean(y),
                Dot(Centred(x, NpMean(x)), Centred(x, NpMean(x))),
                Dot(Centred(x, NpMean(x)), Centred(y, NpMean(y))))

\* r_squared = 1 - (ss_res / ss_tot) if ss_tot != 0 else 0
RSquaredFrom(ss_res, ss_tot) ==
    IF ss_tot # Zero THEN FSub(One, FDiv(ss_res, ss_tot)) ELSE Zero

\* F_values - F_fit with F_fit = coeffs[0] * E_total + coeffs[1]
Residuals(E_total, F_values, coeffs) ==
    [i \in 1..Len(F_values) |->
        FSub(F_values[i], FAdd(FMul(coeffs[1], E_total[i]), coeffs[2]))]

SumSquares(u) == Dot(u, u)

\* R^2 of the straight-line fit of F_values against E_total
FitRSquared(E_total, F_values) ==
    IF Len(E_total) > 1
    THEN RSquaredFrom(SumSquares(Residuals(E_total, F_values,
                                           Polyfit1(E_total, F_values))),
                      SumSquares(Centred(F_values, NpMean(F_values))))
    ELSE Zero

\* the body of the loop over m_values: R^2 of the fit of F against Eo + m*Eg
RSquared(m, Eo_values, Eg_values, F_values) ==
    FitRSquared([i \in 1..Len(F_values) |-> FAdd(Eo_values[i], FMul(m, Eg_values[i]))],
                F_values)

\* np.argmax(a), 1-based, taken from the end: the last index holding the maximum
NpArgmaxLast(a) ==
    CHOOSE i \in 1..Len(a) :
        /\ \A j \in 1..Len(a) : FLe(a[j], a[i])
        /\ \A j \in (i + 1)..Len(a) : FLt(a[j], a[i])

\* np.argmax(a), 1-based: the first index holding the maximum; a NaN entry
\* counts as the maximum
NpArgmax(a) ==
    IF \E i \in 1..Len(a) : IsNaN(a[i])
    THEN CHOOSE i \in 1..Len(a) : IsNaN(a[i]) /\ \A j \in 1..(i - 1) : ~IsNaN(a[j])
    ELSE CHOOSE i \in 1..Len(a) :
            /\ \A j \in 1..Len(a) : FLe(a[j], a[i])
            /\ \A j \in 1..(i - 1) : FLt(a[j], a[i])

\* the selection of the optimum and the results dictionary
SelectOptimal(m_values, r_squared_values, optimal_idx) ==
    [exc |-> "none",
     optimal_m |-> m_values[optimal_idx],
     results_dict |-> [m_values |-> m_values,
                       r_squared_values |-> r_squared_values,
                       optimal_m |-> m_values[optimal_idx],
                       optimal_r_squared |-> r_squared_values[optimal_idx]]]

\* the loop over m_values and what follows it
SearchGrid(m_values, Eo_values, Eg_values, F_values) ==
    LET r_squared_values == [k \in 1..Len(m_values) |->
                                RSquared(m_values[k], Eo_values, Eg_values, F_values)]
    IN  SelectOptimal(m_values, r_squared_values, NpArgmax(r_squared_values))

\* OilReservoir.determine_optimal_m (the optional plot left out).  m_values is
\* a non-empty sequence; We_values is an ndarray or PyNone.
\* Result [exc, optimal_m, results_dict].
determine_optimal_m(self, table, production_data, m_values, We_values) ==
    LET n_points == PyLen(production_data.time)
        We == IF We_values = PyNone THEN NpZeros(n_points) ELSE We_values
        pd == production_data
        indexable == \A i \in 0..(n_points - 1) :
                        /\ Subscriptable(pd.pressure, i) /\ Subscriptable(pd.Np, i)
                        /\ Subscriptable(pd.Gp, i) /\ Subscriptable(pd.Wp, i)
                        /\ Subscriptable(We, i)
        Props(i) == get_properties_at_pressure(table, At(pd.pressure, i - 1)).v
        F_values == [i \in 1..n_points |->
            FSub(FAdd(FAdd(FMul(At(pd.Np, i - 1), Props(i)["Bo"]),
                           FMul(FSub(At(pd.Gp, i - 1),
                                     FMul(At(pd.Np, i - 1), Props(i)["Rs"])),
                                DictGet(Props(i), "Bg", Zero))),
                      FMul(At(pd.Wp, i - 1), DictGet(Props(i), "Bw", One))),
                 At(We, i - 1))]
        Terms(i) == calculate_expansion_terms(self, table, At(pd.pressure, i - 1))
        Eo_values == [i \in 1..n_points |-> Terms(i)[1]]
        Eg_values == [i \in 1..n_points |-> Terms(i)[2]]
    IN  IF ~indexable
        THEN [exc |-> IF IsArray(pd.pressure) THEN "IndexError" ELSE "TypeError",
              optimal_m |-> NaN,
              results_dict |-> [m_values |-> << >>, r_squared_values |-> << >>,
                                optimal_m |-> NaN, optimal_r_squared |-> NaN]]
        ELSE SearchGrid(m_values, Eo_values, Eg_values, F_values)

-----------------------------------------------------------------------------
(* Inputs *)

\* a sequence of integers as a sequence of floats
Floats(s) == [i \in 1..Len(s) |-> Q(s[i], 1)]

NoProps == [a \in PropSet |-> << >>]

Const(n, x) == [i \in 1..n |-> x]

\* a saturated-oil table stored in decreasing pressure order
TableDesc ==
    PVTProperties(Floats(<<30, 20, 10>>), METRIC,
        [NoProps EXCEPT !["Bo"] = Floats(<<4, 3, 2>>),
                        !["Rs"] = Floats(<<6, 4, 2>>),
                        !["Bg"] = Floats(<<1, 2, 3>>),
                        !["z"]  = <<Q(6, 5), Q(1, 1), Q(4, 5)>>,
                        !["Bw"] = Floats(<<1, 1, 1>>),
                        !["cw"] = Const(3, Q(1, 20)),
                        !["cf"] = Const(3, Q(1, 100))])

\* the same rows stored in increasing pressure order
TableAsc ==
    PVTProperties(Floats(<<10, 20, 30>>), METRIC,
        [NoProps EXCEPT !["Bo"] = Floats(<<2, 3, 4>>),
                        !["Rs"] = Floats(<<2, 4, 6>>),
                        !["Bg"] = Floats(<<3, 2, 1>>),
                        !["z"]  = <<Q(4, 5), Q(1, 1), Q(6, 5)>>,
                        !["Bw"] = Floats(<<1, 1, 1>>),
                        !["cw"] = Const(3, Q(1, 20)),
                        !["cf"] = Const(3, Q(1, 100))])

\* incompressible rock and water (cw = cf = 0), decreasing pressure order
TableRigid ==
    PVTProperties(Floats(<<30, 20, 10>>), METRIC,
        [NoProps EXCEPT !["Bo"] = Floats(<<4, 3, 2>>),
                        !["Rs"] = Floats(<<6, 4, 2>>),
                        !["Bg"] = Floats(<<1, 2, 3>>),
                        !["z"]  = <<Q(6, 5), Q(1, 1), Q(4, 5)>>,
                        !["Bw"] = Floats(<<1, 1, 1>>),
                        !["cw"] = Const(3, Zero),
                        !["cf"] = Const(3, Zero)])

\* the rows of TableRigid stored in increasing pressure order
TableRigidAsc ==
    PVTProperties(Floats(<<10, 20, 30>>), METRIC,
        [NoProps EXCEPT !["Bo"] = Floats(<<2, 3, 4>>),
                        !["Rs"] = Floats(<<2, 4, 6>>),
                        !["Bg"] = Floats(<<3, 2, 1>>),
                        !["z"]  = <<Q(4, 5), Q(1, 1), Q(6, 5)>>,
                        !["Bw"] = Floats(<<1, 1, 1>>),
                        !["cw"] = Const(3, Zero),
                        !["cf"] = Const(3, Zero)])

\* a table holding only the two properties the oil model requires
TableOilOnly ==
    PVTProperties(Floats(<<30, 20, 10>>), METRIC,
        [NoProps EXCEPT !["Bo"] = Floats(<<2, 3, 4>>),
                        !["Rs"] = Floats(<<6, 4, 2>>)])

\* a table whose gas FVF is entered as 0 at the highest pressure (no free gas)
TableZeroBg ==
    PVTProperties(Floats(<<30, 20, 10>>), METRIC,
        [NoProps EXCEPT !["Bo"] = Floats(<<4, 3, 2>>),
                        !["Rs"] = Floats(<<6, 4, 2>>),
                        !["Bg"] = Floats(<<0, 1, 2>>),
                        !["z"]  = <<Q(6, 5), Q(1, 1), Q(4, 5)>>,
                        !["cw"] = Const(3, Q(1, 20)),
                        !["cf"] = Const(3, Q(1, 100))])

\* a gas table without the Z-factor, and one without the gas FVF
TableGasNoZ ==
    PVTProperties(Floats(<<30, 20, 10>>), METRIC,
        [NoProps EXCEPT !["Bg"] = Floats(<<1, 2, 3>>),
                        !["Bw"] = Floats(<<1, 1, 1>>)])

TableGasNoBg ==
    PVTProperties(Floats(<<30, 20, 10>>), METRIC,
        [NoProps EXCEPT !["z"]  = <<Q(6, 5), Q(1, 1), Q(4, 5)>>,
                        !["Bw"] = Floats(<<1, 1, 1>>)])

\* reservoir temperature given to the constructors (degrees Celsius)
Temperature == Q(90, 1)

-----------------------------------------------------------------------------
(* State *)

VARIABLES
    pvt,    \* the PVTProperties object both models hold a reference to
    oil,    \* the OilReservoir instance
    gas,    \* the GasReservoir instance, or the exception its constructor raised
    call,   \* the last call made: its name and arguments
    ret,    \* what that call returned or raised
    threads \* the calls in progress (on other threads, or a solver's loop):
            \* job, position, locals

vars == <<pvt, oil, gas, call, ret, threads>>

\* the state after OilReservoir.__init__ returned (a program that builds an
\* oil model holds no gas model)
ConstructOil(tables, pressures, ms) ==
    \E t \in tables, Pi \in pressures, m \in ms :
        /\ pvt = t
        /\ oil = OilReservoir(t, Pi, Temperature, m, FALSE, METRIC)
        /\ oil.constructed = "ok"
        /\ gas = NoObject
        /\ call = [op |-> "__init__"]
        /\ ret = [exc |-> "none"]
        /\ threads = << >>

\* the state after GasReservoir.__init__ returned
ConstructGas(tables, pressures, aquifer) ==
    \E t \in tables, Pi \in pressures, aq \in aquifer :
        /\ pvt = t
        /\ gas = GasReservoir(t, Pi, Temperature, aq, METRIC)
        /\ gas.constructed = "ok"
        /\ oil = NoObject
        /\ call = [op |-> "__init__"]
        /\ ret = [exc |-> "none"]
        /\ threads = << >>

-----------------------------------------------------------------------------
(* Calls on the oil model *)

CallSTOIIP(Np, Gp, Wp, pressure, We) ==
    \E r \in {calculate_STOIIP(oil, pvt, Np, Gp, Wp, pressure, We)} :
    /\ oil' = r.self
    /\ call' = [op |-> "calculate_STOIIP", Np |-> Np, Gp |-> Gp, Wp |-> Wp,
                pressure |-> pressure, We |-> We]
    /\ ret' = [exc |-> r.exc, v |-> r.v]
    /\ UNCHANGED <<pvt, gas, threads>>

CallExpansionTerms(pressure) ==
    /\ call' = [op |-> "calculate_expansion_terms", pressure |-> pressure]
    /\ ret' = [exc |-> "none", v |-> calculate_expansion_terms(oil, pvt, pressure)]
    /\ UNCHANGED <<pvt, oil, gas, threads>>

\* series: the parallel input sequences <<time, Np, Gp, Wp, pressure>>
CallSTOIIPBatch(series, unit_system, We_values) ==
    \E r \in {calculate_STOIIP_from_production_data(oil, pvt,
                  ProductionData(series[1], series[2], series[3], series[4], series[5],
                                 unit_system), We_values)} :
        /\ oil' = r.self
        /\ call' = [op |-> "calculate_STOIIP_from_production_data", series |-> series,
                    unit_system |-> unit_system, We_values |-> We_values]
        /\ ret' = [exc |-> r.exc, N_values |-> r.N_values, statistics |-> r.statistics]
        /\ UNCHANGED <<pvt, gas, threads>>

CallDetermineOptimalM(series, unit_system, m_values, We_values) ==
    \E r \in {determine_optimal_m(oil, pvt,
                  ProductionData(series[1], series[2], series[3], series[4], series[5],
                                 unit_system), m_values, We_values)} :
        /\ call' = [op |-> "determine_optimal_m", series |-> series,
                    unit_system |-> unit_system, m_values |-> m_values,
                    We_values |-> We_values]
        /\ ret' = r
        /\ UNCHANGED <<pvt, oil, gas, threads>>

(* Calls on the gas model *)

CallGIIP(Gp, pressure, Wp, We) ==
    /\ call' = [op |-> "calculate_GIIP", Gp |-> Gp, pressure |-> pressure,
                Wp |-> Wp, We |-> We]
    /\ ret' = calculate_GIIP(gas, pvt, Gp, pressure, Wp, We)
    /\ UNCHANGED <<pvt, oil, gas, threads>>

CallGIIPpz(Gp, pressure, z) ==
    /\ call' = [op |-> "calculate_GIIP_pz_method", Gp |-> Gp, pressure |-> pressure,
                z |-> z]
    /\ ret' = calculate_GIIP_pz_method(gas, pvt, Gp, pressure, z)
    /\ UNCHANGED <<pvt, oil, gas, threads>>

\* series: the parallel input sequences <<time, Gp, Wp, pressure>>
CallGIIPBatch(series, unit_system, We_values, method) ==
    \E r \in {calculate_GIIP_from_production_data(gas, pvt,
                  GasProductionData(series[1], series[2], series[3], series[4],
                                    unit_system), We_values, method)} :
        /\ call' = [op |-> "calculate_GIIP_from_production_data", series |-> series,
                    unit_system |-> unit_system, We_values |-> We_values,
                    method |-> method]
        /\ ret' = [exc |-> r.exc, N_values |-> r.G_values, statistics |-> r.statistics]
        /\ UNCHANGED <<pvt, oil, gas, threads>>

-----------------------------------------------------------------------------
(* SpecPoint: single-point oil solves on every kind of table *)

\* pressures are drawn from the grid 5, 10, ..., 5 * MaxPressureSteps; the
\* tables sample 10..30, so the grid reaches outside the sampled range
MaxPressureSteps == 7
PressureGrid == {Q(5 * k, 1) : k \in 1..MaxPressureSteps}

\* initial pressures: on a sample, between samples, below and above the range
InitialPressures == {Q(30, 1), Q(25, 1), Q(5, 1), Q(35, 1)}

\* <<Np, Gp, Wp, We>> of a single-point call
PointInputs == {<<Zero, Zero, Zero, Zero>>,
                <<Q(2, 1), Q(20, 1), One, Zero>>,
                <<Q(2, 1), Q(20, 1), One, Q(100, 1)>>}

InitPoint ==
    ConstructOil({TableDesc, TableAsc, TableOilOnly, TableZeroBg}, InitialPressures,
                 {Zero, Q(1, 2)})

PointSolve ==
    \E in \in PointInputs, p \in PressureGrid \cup {oil.Pi} :
        CallSTOIIP(in[1], in[2], in[3], p, in[4])

NextPoint == PointSolve

SpecPoint == InitPoint /\ [][NextPoint]_vars

\* the property of the table at a pressure, as a float
PropAt(name, default, p) ==
    IF pvt.props[name].t = "None" THEN default
    ELSE interpolate_property(pvt, name, p).v

\* F and Et of the last calculate_STOIIP call, from the claim's formulas
ClaimF ==
    FSub(FAdd(FAdd(FMul(call.Np, PropAt("Bo", Zero, call.pressure)),
                   FMul(FSub(call.Gp, FMul(call.Np, PropAt("Rs", Zero, call.pressure))),
                        PropAt("Bg", Zero, call.pressure))),
              FMul(call.Wp, PropAt("Bw", One, call.pressure))),
         call.We)

ClaimEt ==
    LET t == calculate_expansion_terms(oil, pvt, call.pressure)
    IN  FAdd(FAdd(t[1], FMul(oil.m, t[2])), t[3])

\* C3: calculate_STOIIP raises the domain error exactly when Et <= 0 and
\* otherwise returns F / Et, a finite value that is zero only when F is zero
\* (never an infinite, NaN or silently zeroed value).
C3_DomainErrorOrQuotient ==
    call.op = "calculate_STOIIP" =>
        /\ (ret.exc = "ValueError") <=> FLe(ClaimEt, Zero)
        /\ ret.exc \in {"none", "ValueError"}
        /\ ret.exc = "none" =>
              /\ ret.v = FDiv(ClaimF, ClaimEt)
              /\ IsFinite(ret.v)
              /\ (ret.v = Zero => ClaimF = Zero)

\* C4: calculate_STOIIP called with pressure equal to the model's initial
\* pressure raises the domain error, whatever the table, m and volumes.
C4_InitialPressureRaises ==
    (call.op = "calculate_STOIIP" /\ call.pressure = oil.Pi) => ret.exc = "ValueError"

-----------------------------------------------------------------------------
(* SpecBatch: one batch solve on a freshly constructed oil or gas model *)

\* the longest production series
MaxPoints == 3

\* a production point <<Np, Gp, Wp, pressure>>; "Pi" stands for a record taken
\* at the model's initial pressure (the first row of a production history)
OilPoints == {<<Q(2, 1), Q(20, 1), One, Q(20, 1)>>,
              <<Q(4, 1), Q(50, 1), One, Q(10, 1)>>,
              <<Zero, Zero, Zero, Q(15, 1)>>,
              <<Zero, Zero, Zero, None>>}

\* a production point <<Gp, Wp, pressure>>
GasPoints == {<<Q(20, 1), Zero, Q(20, 1)>>,
              <<Q(50, 1), One, Q(10, 1)>>,
              <<Zero, Zero, Q(15, 1)>>,
              <<Zero, Zero, None>>}

Pressure(p, Pi) == IF p = None THEN Pi ELSE p

\* the parallel sequences <<time, Np, Gp, Wp, pressure>> of a list of points
OilSeries(points, Pi) ==
    <<[i \in 1..Len(points) |-> Q(365 * (i - 1), 1)],
      [i \in 1..Len(points) |-> points[i][1]],
      [i \in 1..Len(points) |-> points[i][2]],
      [i \in 1..Len(points) |-> points[i][3]],
      [i \in 1..Len(points) |-> Pressure(points[i][4], Pi)]>>

\* the parallel sequences <<time, Gp, Wp, pressure>> of a list of points
GasSeries(points, Pi) ==
    <<[i \in 1..Len(points) |-> Q(365 * (i - 1), 1)],
      [i \in 1..Len(points) |-> points[i][1]],
      [i \in 1..Len(points) |-> points[i][2]],
      [i \in 1..Len(points) |-> Pressure(points[i][3], Pi)]>>

\* We_values: the default, or one unit of influx at every point
InfluxChoices(n) == {PyNone, NdArray(Const(n, One))}

InitBatch ==
    \/ ConstructOil({TableRigid, TableRigidAsc}, {Q(30, 1), Q(20, 1)}, {Zero, Q(1, 2)})
    \/ ConstructGas({TableRigid, TableRigidAsc}, {Q(30, 1), Q(20, 1)}, BOOLEAN)

OilBatch ==
    /\ oil.constructed = "ok"
    /\ call.op = "__init__"
    /\ \E n \in 1..MaxPoints : \E points \in [1..n -> OilPoints] :
       \E We \in InfluxChoices(n) :
          CallSTOIIPBatch(OilSeries(points, oil.Pi), METRIC, We)

GasBatch ==
    /\ gas.constructed = "ok"
    /\ call.op = "__init__"
    /\ \E n \in 1..MaxPoints : \E points \in [1..n -> GasPoints] :
       \E We \in InfluxChoices(n), method \in {"standard", "pz"} :
          CallGIIPBatch(GasSeries(points, gas.Pi), METRIC, We, method)

NextBatch == OilBatch \/ GasBatch

SpecBatch == InitBatch /\ [][NextBatch]_vars

BatchOps == {"calculate_STOIIP_from_production_data",
             "calculate_GIIP_from_production_data"}

\* number of points of the series the batch call was given
SeriesLen == Len(call.series[1])

\* the water influx the batch solver hands to the solve of point i
InfluxAt(i) == IF call.We_values.t = "None" THEN Zero ELSE call.We_values.v[i]

\* what the single-point solver does with point i of the series: [exc, v]
SinglePoint(i) ==
    IF call.op = "calculate_STOIIP_from_production_data"
    THEN LET r == calculate_STOIIP(oil, pvt, call.series[2][i], call.series[3][i],
                                   call.series[4][i], call.series[5][i], InfluxAt(i))
         IN  [exc |-> r.exc, v |-> r.v]
    ELSE IF call.method = "pz"
    THEN calculate_GIIP_pz_method(gas, pvt, call.series[2][i], call.series[4][i], None)
    ELSE calculate_GIIP(gas, pvt, call.series[2][i], call.series[4][i],
                        call.series[3][i], InfluxAt(i))

\* the points whose single-point solve succeeds
ValidPoints == {i \in 1..SeriesLen : SinglePoint(i).exc = "none"}

\* C1: when at least one point of a series of n >= 1 points is solvable, the
\* batch solvers return n entries in input order; entry i is the value of the
\* single-point solve of point i, or NaN when that solve raises.
C1_PerPointEntries ==
    (call.op \in BatchOps /\ ValidPoints # {})
        => /\ ret.exc = "none"
           /\ Len(ret.N_values) = SeriesLen
           /\ \A i \in 1..SeriesLen :
                 ret.N_values[i] = IF i \in ValidPoints THEN SinglePoint(i).v ELSE NaN

\* C2: the batch solvers raise exactly when no point of the series is valid,
\* for every series length n >= 1.
C2_AggregateErrorIffNoValidPoint ==
    call.op \in BatchOps => ((ret.exc # "none") <=> (ValidPoints = {}))

\* the entries of the returned array that are not NaN, by position
ValidEntries == {i \in 1..Len(ret.N_values) : ~IsNaN(ret.N_values[i])}

Entry(i) == ret.N_values[i]

RECURSIVE SumOver(_, _)
SumOver(S, f) ==
    IF S = {} THEN Zero
    ELSE LET i == CHOOSE j \in S : TRUE IN FAdd(f[i], SumOver(S \ {i}, f))

Below(x) == Cardinality({k \in ValidEntries : FLt(Entry(k), x)})
Above(x) == Cardinality({k \in ValidEntries : FLt(x, Entry(k))})

\* x is the middle value of an odd number of valid entries, or the mean of the
\* two middle values of an even number
IsMedian(x) ==
    LET c == Cardinality(ValidEntries) IN
    IF c % 2 = 1
    THEN \E i \in ValidEntries :
            /\ x = Entry(i)
            /\ 2 * Below(x) < c
            /\ 2 * Above(x) < c
    ELSE \E i, j \in ValidEntries :
            /\ i # j
            /\ FLe(Entry(i), Entry(j))
            /\ 2 * Below(Entry(i)) < c /\ 2 * Above(Entry(i)) <= c
            /\ 2 * Below(Entry(j)) <= c /\ 2 * Above(Entry(j)) < c
            /\ x = FDiv(FAdd(Entry(i), Entry(j)), Q(2, 1))

\* C5: the statistics of a batch solve are taken over the non-NaN entries of
\* the returned array only: count is their number, mean their sum over count,
\* median their middle value, std the square root of their mean squared
\* deviation, min and max their extremes, and the coefficient of variation is
\* std / mean, or +infinity when the mean is 0.
C5_StatisticsOverValidEntries ==
    (call.op \in BatchOps /\ ret.exc = "none")
        => LET st == ret.statistics
               c  == Q(Cardinality(ValidEntries), 1)
               dev2 == [i \in ValidEntries |->
                           FMul(FSub(Entry(i), st.mean), FSub(Entry(i), st.mean))]
           IN  /\ st.count = Cardinality(ValidEntries)
               /\ st.count >= 1
               /\ FMul(st.mean, c) = SumOver(ValidEntries, ret.N_values)
               /\ IsMedian(st.median)
               /\ FMul(st.std.sqrt, c) = SumOver(ValidEntries, dev2)
               /\ \E i \in ValidEntries : st.min = Entry(i)
               /\ \E i \in ValidEntries : st.max = Entry(i)
               /\ \A i \in ValidEntries : FLe(st.min, Entry(i)) /\ FLe(Entry(i), st.max)
               /\ IF st.mean = Zero
                  THEN st.coefficient_of_variation.inf
                  ELSE /\ ~st.coefficient_of_variation.inf
                       /\ st.coefficient_of_variation.num = st.std
                       /\ st.coefficient_of_variation.den = st.mean

\* a batch solve returned statistics over two or more distinct valid entries
\* while at least one entry of the array is NaN
C5_Witness ==
    /\ call.op \in BatchOps
    /\ ret.exc = "none"
    /\ ret.statistics.count >= 2
    /\ ret.statistics.count < Len(ret.N_values)
    /\ ret.statistics.min # ret.statistics.max

-----------------------------------------------------------------------------
(* SpecCalls: arbitrary sequences of calls on one oil model or one gas model *)

\* a production history that starts with the record at initial pressure; the
\* batch calls are given its leading points
OilHistory == <<<<Zero, Zero, Zero, None>>,
                <<One, Q(5, 1), Zero, Q(20, 1)>>,
                <<Q(2, 1), Q(7, 1), One, Q(10, 1)>>>>

GasHistory == <<<<Zero, Zero, None>>,
                <<Q(20, 1), Zero, Q(20, 1)>>,
                <<Q(50, 1), One, Q(10, 1)>>>>

\* the candidate grid given to determine_optimal_m
CandidateGrid == <<Zero, Q(1, 2), One>>

InitCalls ==
    \/ ConstructOil({TableRigid}, {Q(30, 1)}, {Zero, Q(1, 2)})
    \/ ConstructGas({TableRigid}, {Q(30, 1)}, BOOLEAN)

CallsSTOIIP ==
    /\ oil.constructed = "ok"
    /\ \E Np \in {Q(2, 1), Q(4, 1)}, p \in {Q(20, 1), oil.Pi} :
          CallSTOIIP(Np, Q(20, 1), One, p, Zero)

CallsExpansionTerms ==
    /\ oil.constructed = "ok"
    /\ \E p \in {Q(20, 1), oil.Pi} : CallExpansionTerms(p)

CallsSTOIIPBatch ==
    /\ oil.constructed = "ok"
    /\ \E n \in 1..Len(OilHistory) :
          CallSTOIIPBatch(OilSeries(SubSeq(OilHistory, 1, n), oil.Pi), METRIC, PyNone)

CallsDetermineOptimalM ==
    /\ oil.constructed = "ok"
    /\ \E n \in 2..Len(OilHistory) :
          CallDetermineOptimalM(OilSeries(SubSeq(OilHistory, 1, n), oil.Pi), METRIC,
                                CandidateGrid, PyNone)

CallsGIIP ==
    /\ gas.constructed = "ok"
    /\ \E Gp \in {Q(20, 1), Q(50, 1)}, p \in {Q(20, 1), gas.Pi}, Wp \in {Zero, One} :
          CallGIIP(Gp, p, Wp, Zero)

CallsGIIPpz ==
    /\ gas.constructed = "ok"
    /\ \E Gp \in {Q(20, 1), Q(50, 1)}, p \in {Q(20, 1), gas.Pi}, z \in {None, One} :
          CallGIIPpz(Gp, p, z)

CallsGIIPBatch ==
    /\ gas.constructed = "ok"
    /\ \E n \in 1..Len(GasHistory), method \in {"standard", "pz"} :
          CallGIIPBatch(GasSeries(SubSeq(GasHistory, 1, n), gas.Pi), METRIC, PyNone,
                        method)

NextCalls ==
    \/ CallsSTOIIP
    \/ CallsExpansionTerms
    \/ CallsSTOIIPBatch
    \/ CallsDetermineOptimalM
    \/ CallsGIIP
    \/ CallsGIIPpz
    \/ CallsGIIPBatch

SpecCalls == InitCalls /\ [][NextCalls]_vars

SolveOps == {"calculate_STOIIP", "calculate_STOIIP_from_production_data"}

\* the per-point breakdown lists of the oil model
BreakdownLists == {"Eo_values", "Eg_values", "Efw_values", "Et_values", "F_values",
                   "pressure_values"}

\* every other field of the oil model
ConfigFields == {"constructed", "unit_system", "Pi", "T", "m", "aquifer_influx",
                 "initial_props", "Boi", "Rsi", "Bgi"}

C8_ConstructionValuesFixed ==
    [][/\ pvt' = pvt
       /\ oil.constructed = "ok" =>
             \A f \in {"Pi", "T", "m", "Boi", "Rsi", "Bgi", "initial_props"} :
                oil'[f] = oil[f]
       /\ gas.constructed = "ok" =>
             \A f \in {"Pi", "T", "Bgi", "Zi", "initial_props"} :
                gas'[f] = gas[f]]_vars

\* a model with a gas cap has solved a batch and then searched for m
C8_Witness ==
    /\ call.op = "determine_optimal_m"
    /\ ret.exc = "none"
    /\ oil.m # Zero
    /\ Len(oil.F_values) >= 2
    /\ oil.last_pressure # None

-----------------------------------------------------------------------------
(* SpecThreads: two threads call the solvers of one OilReservoir instance.
   A thread runs one call; between two steps of a thread the other thread may
   run.  A step is the rebinding of the six lists, one single-point solve
   (which stores the last-point values on the instance), or the appends that
   follow it (which read them back from the instance). *)

PointA == <<One, Q(5, 1), Zero, Q(20, 1)>>
PointB == <<Q(2, 1), Q(7, 1), One, Q(10, 1)>>

\* the calls a thread may be given: a single-point solve or a batch solve
ThreadJobs(Pi) ==
    {[op |-> "calculate_STOIIP", pts |-> <<pt>>] : pt \in {PointA, PointB}}
    \cup {[op |-> "calculate_STOIIP_from_production_data", pts |-> ps] :
             ps \in {<<PointA, PointB>>, <<PointB, PointA>>,
                     <<<<Zero, Zero, Zero, Pi>>, PointA>>}}

StartThread(job) ==
    [op |-> job.op, pts |-> job.pts,
     pc |-> IF job.op = "calculate_STOIIP" THEN "solve" ELSE "clear",
     i |-> 1, N_values |-> [k \in 1..Len(job.pts) |-> Zero],
     ret |-> [exc |-> "running"]]

\* two threads are handed different calls on the freshly constructed model
Spawn ==
    /\ threads = << >>
    /\ \E j1, j2 \in ThreadJobs(oil.Pi) :
          /\ j1 # j2
          /\ threads' = <<StartThread(j1), StartThread(j2)>>
    /\ call' = [op |-> "threads"]
    /\ UNCHANGED <<pvt, oil, gas, ret>>

Running(k) == k \in DOMAIN threads

\* the step to the next point of the loop, or to the statistics after the last
Advance(t) ==
    IF t.i = Len(t.pts) THEN [t EXCEPT !.pc = "stats"]
    ELSE [t EXCEPT !.pc = "solve", !.i = t.i + 1]

\* self.Eo_values = [] ... self.pressure_values = []
ThreadClear(k) ==
    /\ Running(k) /\ threads[k].pc = "clear"
    /\ oil' = ClearLists(oil)
    /\ threads' = [threads EXCEPT ![k].pc = "solve"]
    /\ UNCHANGED <<pvt, gas, call, ret>>

\* one run of calculate_STOIIP: on its own, or for point i of a batch
ThreadSolve(k) ==
    /\ Running(k) /\ threads[k].pc = "solve"
    /\ LET t  == threads[k]
           pt == t.pts[t.i]
       IN  \E r \in {calculate_STOIIP(oil, pvt, pt[1], pt[2], pt[3], pt[4], Zero)} :
              /\ oil' = r.self
              /\ threads' = [threads EXCEPT ![k] =
                    IF t.op = "calculate_STOIIP"
                    THEN [t EXCEPT !.pc = "done", !.ret = [exc |-> r.exc, v |-> r.v]]
                    ELSE IF r.exc = "none"
                    THEN [t EXCEPT !.pc = "append", !.N_values[t.i] = r.v]
                    ELSE [t EXCEPT !.pc = "except", !.N_values[t.i] = NaN]]
    /\ UNCHANGED <<pvt, gas, call, ret>>

\* the appends of the try branch
ThreadAppend(k) ==
    /\ Running(k) /\ threads[k].pc = "append"
    /\ oil' = AppendLast(oil, threads[k].pts[threads[k].i][4])
    /\ threads' = [threads EXCEPT ![k] = Advance(threads[k])]
    /\ UNCHANGED <<pvt, gas, call, ret>>

\* the appends of the except branch
ThreadExcept(k) ==
    /\ Running(k) /\ threads[k].pc = "except"
    /\ oil' = AppendPressure(AppendNaN(oil), threads[k].pts[threads[k].i][4])
    /\ threads' = [threads EXCEPT ![k] = Advance(threads[k])]
    /\ UNCHANGED <<pvt, gas, call, ret>>

\* the statistics and the return of the batch solver
ThreadReturn(k) ==
    /\ Running(k) /\ threads[k].pc = "stats"
    /\ LET t == threads[k]
           valid_N == DropNaN(t.N_values)
       IN  threads' = [threads EXCEPT ![k] =
              [t EXCEPT !.pc = "done",
                        !.ret = IF Len(valid_N) = 0
                                THEN [exc |-> "ValueError", N_values |-> << >>,
                                      statistics |-> NoStatistics]
                                ELSE [exc |-> "none", N_values |-> t.N_values,
                                      statistics |-> Statistics(valid_N)]]]
    /\ UNCHANGED <<pvt, oil, gas, call, ret>>

InitThreads == ConstructOil({TableRigid}, {Q(30, 1)}, {Zero, Q(1, 2)})

NextThreads ==
    \/ Spawn
    \/ \E k \in 1..2 : ThreadClear(k)
    \/ \E k \in 1..2 : ThreadSolve(k)
    \/ \E k \in 1..2 : ThreadAppend(k)
    \/ \E k \in 1..2 : ThreadExcept(k)
    \/ \E k \in 1..2 : ThreadReturn(k)

SpecThreads == InitThreads /\ [][NextThreads]_vars

\* the production record a batch job is called with
JobRecord(job) ==
    ProductionData([i \in 1..Len(job.pts) |-> Q(365 * (i - 1), 1)],
                   [i \in 1..Len(job.pts) |-> job.pts[i][1]],
                   [i \in 1..Len(job.pts) |-> job.pts[i][2]],
                   [i \in 1..Len(job.pts) |-> job.pts[i][3]],
                   [i \in 1..Len(job.pts) |-> job.pts[i][4]], METRIC)

\* the call of a job run on its own, start to end: [self, ret]
RunAlone(self, job) ==
    IF job.op = "calculate_STOIIP"
    THEN LET pt == job.pts[1]
             r  == calculate_STOIIP(self, pvt, pt[1], pt[2], pt[3], pt[4], Zero)
         IN  [self |-> r.self, ret |-> [exc |-> r.exc, v |-> r.v]]
    ELSE LET r == calculate_STOIIP_from_production_data(self, pvt, JobRecord(job), PyNone)
         IN  [self |-> r.self,
              ret |-> [exc |-> r.exc, N_values |-> r.N_values,
                       statistics |-> r.statistics]]

\* the six lists left on the instance
Breakdown(self) == [f \in BreakdownLists |-> self[f]]

\* the six lists left by running the call of thread a, then that of thread b,
\* on the model as constructed
SerialBreakdown(a, b) ==
    Breakdown(RunAlone(RunAlone(ClearLists(oil), threads[a]).self, threads[b]).self)

BothDone == threads # << >> /\ \A k \in 1..2 : threads[k].pc = "done"

\* C7: when two threads have run different solver calls on the same instance,
\* each call returned what it returns when run alone, and the six breakdown
\* lists are those of running the two calls one after the other in some
\* order, all of the same length.
C7_CallsSerialise ==
    BothDone =>
        /\ \A k \in 1..2 : threads[k].ret = RunAlone(oil, threads[k]).ret
        /\ Breakdown(oil) \in {SerialBreakdown(1, 2), SerialBreakdown(2, 1)}
        /\ \A f, g \in BreakdownLists : Len(oil[f]) = Len(oil[g])

-----------------------------------------------------------------------------
(* SpecCalib: one search for the gas-cap ratio on a freshly constructed model *)

\* the longest candidate grid
MaxGrid == 3

Candidates == {Zero, Q(1, 2), One}

\* noiseless production histories of a reservoir with N = 1 and Pi = 30 on
\* TableRigid, one per true gas-cap ratio: F = Eo + m * Eg at every point
SyntheticHistory ==
    [m \in Candidates |->
        IF m = Zero
        THEN <<<<Zero, Zero, Zero, None>>, <<One, Q(4, 1), Zero, Q(20, 1)>>,
               <<Q(2, 1), Q(6, 1), Zero, Q(10, 1)>>>>
        ELSE IF m = One
        THEN <<<<Zero, Zero, Zero, None>>, <<One, Q(6, 1), Zero, Q(20, 1)>>,
               <<Q(2, 1), Q(8, 1), Q(2, 1), Q(10, 1)>>>>
        ELSE OilHistory]

\* the synthetic histories, a history with F on no line, one with no
\* production at all, and series of two, one and no points
CalibHistories ==
    {SyntheticHistory[m] : m \in Candidates}
    \cup {<<<<Zero, Zero, Zero, None>>, <<One, Q(4, 1), One, Q(20, 1)>>,
            <<Q(2, 1), Q(5, 1), Q(2, 1), Q(10, 1)>>>>,
          <<<<Zero, Zero, Zero, None>>, <<Zero, Zero, Zero, Q(20, 1)>>,
            <<Zero, Zero, Zero, Q(10, 1)>>>>,
          SubSeq(OilHistory, 1, 2),
          SubSeq(OilHistory, 2, 2),
          << >>}

InitCalib == ConstructOil({TableRigid}, {Q(30, 1)}, Candidates)

CalibSearch ==
    /\ call.op = "__init__"
    /\ \E n \in 1..MaxGrid : \E m_values \in [1..n -> Candidates] :
       \E history \in CalibHistories :
          CallDetermineOptimalM(OilSeries(history, oil.Pi), METRIC, m_values, PyNone)

NextCalib == CalibSearch

SpecCalib == InitCalib /\ [][NextCalib]_vars

\* the underground withdrawal of point i of the series the search was given
SeriesF(i) ==
    LET p  == call.series[5][i]
        Np == call.series[2][i]
        Gp == call.series[3][i]
        Wp == call.series[4][i]
    IN  FAdd(FAdd(FMul(Np, PropAt("Bo", Zero, p)),
                  FMul(FSub(Gp, FMul(Np, PropAt("Rs", Zero, p))), PropAt("Bg", Zero, p))),
             FMul(Wp, PropAt("Bw", One, p)))

\* the total expansion of point i for the candidate m, from the expansion
\* terms the model self computes
SeriesE(self, m, i) ==
    LET t == calculate_expansion_terms(self, pvt, call.series[5][i])
    IN  FAdd(t[1], FMul(m, t[2]))

\* the squared correlation of F and Eo + m*Eg over the series, 0 when either
\* is constant or the series has a single point
Correlation2(self, m) ==
    LET n   == SeriesLen
        x   == [i \in 1..n |-> SeriesE(self, m, i)]
        y   == [i \in 1..n |-> SeriesF(i)]
        xm  == FDiv(SeqSum(x), Q(n, 1))
        ym  == FDiv(SeqSum(y), Q(n, 1))
        Sxx == SeqSum([i \in 1..n |-> FMul(FSub(x[i], xm), FSub(x[i], xm))])
        Syy == SeqSum([i \in 1..n |-> FMul(FSub(y[i], ym), FSub(y[i], ym))])
        Sxy == SeqSum([i \in 1..n |-> FMul(FSub(x[i], xm), FSub(y[i], ym))])
    IN  IF n <= 1 \/ Sxx = Zero \/ Syy = Zero THEN Zero
        ELSE FDiv(FMul(Sxy, Sxy), FMul(Sxx, Syy))

Searched == call.op = "determine_optimal_m" /\ ret.exc = "none"

\* C9: the search returns one R^2 per candidate in grid order, and the
\* candidate it returns is the first one of the grid whose R^2 is the maximum
\* of the curve; the reported optimal R^2 is that candidate's curve entry.
C9_FirstMaximumOfCurve ==
    Searched =>
        LET grid  == call.m_values
            curve == ret.results_dict.r_squared_values
        IN  /\ Len(curve) = Len(grid)
            /\ ret.results_dict.m_values = grid
            /\ \A k \in 1..Len(grid) : curve[k] = Correlation2(oil, grid[k])
            /\ ret.results_dict.optimal_m = ret.optimal_m
            /\ \E k \in 1..Len(grid) :
                  /\ ret.optimal_m = grid[k]
                  /\ ret.results_dict.optimal_r_squared = curve[k]
                  /\ \A j \in 1..Len(grid) : FLe(curve[j], curve[k])
                  /\ \A j \in 1..(k - 1) : FLt(curve[j], curve[k])

\* a search over a grid that rises to its maximum at the second candidate
\* and holds the same R^2 again at the third
C9_Witness ==
    /\ Searched
    /\ Len(call.m_values) = 3
    /\ ret.optimal_m = call.m_values[2]
    /\ FLt(ret.results_dict.r_squared_values[1], ret.results_dict.r_squared_values[2])
    /\ ret.results_dict.r_squared_values[3] = ret.results_dict.r_squared_values[2]

\* the model that differs from self only in its gas-cap ratio
WithRatio(self, m) ==
    OilReservoir(pvt, self.Pi, Temperature, m, self.aquifer_influx, METRIC)

\* C10: a model constructed with another gas-cap ratio m, given the same
\* table, production series and candidate grid, returns the same optimal m
\* and the same (m, R^2) curve.
C10_SearchIgnoresOwnRatio ==
    Searched =>
        \A m \in Candidates :
            determine_optimal_m(WithRatio(oil, m), pvt,
                ProductionData(call.series[1], call.series[2], call.series[3],
                               call.series[4], call.series[5], call.unit_system),
                call.m_values, call.We_values) = ret

\* C11: given a production series of fewer than 2 points, the search returns
\* normally: every candidate of the grid has R^2 = 0 and the first candidate
\* is returned with R^2 = 0.
C11_ShortSeriesScoresZero ==
    (call.op = "determine_optimal_m" /\ SeriesLen < 2) =>
        /\ ret.exc = "none"
        /\ ret.results_dict.r_squared_values = [k \in 1..Len(call.m_values) |-> Zero]
        /\ ret.optimal_m = call.m_values[1]
        /\ ret.results_dict.optimal_r_squared = Zero

\* the positions of the grid that hold m, and those next to one that does
Occurrences(grid, m) == {k \in 1..Len(grid) : grid[k] = m}
Neighbours(grid, m) ==
    {j \in 1..Len(grid) : \E k \in Occurrences(grid, m) : Abs(j - k) <= 1}

\* C12: on the noiseless synthetic history of a true ratio m* and a grid that
\* contains m*, the search returns m* or a grid neighbour of m*, and the R^2
\* of m* on the curve is at least 0.99.
C12_RecoversTrueRatio ==
    Searched =>
        \A mstar \in Candidates :
            (/\ call.series = OilSeries(SyntheticHistory[mstar], oil.Pi)
             /\ Occurrences(call.m_values, mstar) # {})
            => /\ \E j \in Neighbours(call.m_values, mstar) :
                     ret.optimal_m = call.m_values[j]
               /\ \A k \in Occurrences(call.m_values, mstar) :
                     FLe(Q(99, 100), ret.results_dict.r_squared_values[k])

-----------------------------------------------------------------------------
(* SpecGas: the construction of a gas model on every kind of table, then one
   single-point solve (the solvers write nothing, so one call per behaviour
   reaches every result) *)

GasTables == {TableDesc, TableAsc, TableZeroBg, TableOilOnly, TableGasNoZ, TableGasNoBg}

\* GasReservoir.__init__ returned or raised; gas holds the exception when it
\* raised and no instance exists
InitGas ==
    \E t \in GasTables, Pi \in InitialPressures, aq \in BOOLEAN :
        /\ pvt = t
        /\ gas = GasReservoir(t, Pi, Temperature, aq, METRIC)
        /\ oil = NoObject
        /\ call = [op |-> "__init__"]
        /\ ret = [exc |-> IF gas.constructed = "ok" THEN "none" ELSE gas.constructed]
        /\ threads = << >>

\* cumulative water influx: none, into the reservoir, out of the reservoir
InfluxValues == {Zero, Q(5, 1), Q(-5, 1)}

GasSolve ==
    /\ gas.constructed = "ok"
    /\ call.op = "__init__"
    /\ \E Gp \in {Zero, Q(20, 1)}, p \in PressureGrid \cup {gas.Pi},
          Wp \in {Zero, One}, We \in InfluxValues :
          CallGIIP(Gp, p, Wp, We)

GasSolvePz ==
    /\ gas.constructed = "ok"
    /\ call.op = "__init__"
    /\ \E Gp \in {Zero, Q(20, 1)}, p \in PressureGrid \cup {gas.Pi},
          z \in {None, One, Q(4, 5)} :
          CallGIIPpz(Gp, p, z)

NextGas == GasSolve \/ GasSolvePz

SpecGas == InitGas /\ [][NextGas]_vars

\* the two forms of the gas material balance at the call's pressure
WaterForm ==
    [num |-> FAdd(FSub(FMul(call.Gp, PropAt("Bg", Zero, call.pressure)), call.We),
                  FMul(call.Wp, PropAt("Bw", One, call.pressure))),
     den |-> FSub(PropAt("Bg", Zero, call.pressure), gas.Bgi)]

DryGasForm ==
    [num |-> call.Gp,
     den |-> FSub(FDiv(PropAt("Bg", Zero, call.pressure), gas.Bgi), One)]

\* C13: calculate_GIIP returns the quotient of the water form whenever the
\* aquifer flag is set or Wp is nonzero or We is nonzero, of either sign, and
\* the quotient of the dry-gas form only when the flag is unset and Wp and We
\* are both zero.
C13_WaterFormIffWaterTerms ==
    (call.op = "calculate_GIIP" /\ ret.exc = "none") =>
        ret.v = IF gas.aquifer_influx \/ call.Wp # Zero \/ call.We # Zero
                THEN FDiv(WaterForm.num, WaterForm.den)
                ELSE FDiv(DryGasForm.num, DryGasForm.den)

\* the form calculate_GIIP selected
SelectedForm ==
    IF gas.aquifer_influx \/ FLt(Zero, call.We) \/ FLt(Zero, call.Wp)
    THEN WaterForm ELSE DryGasForm

\* C14: calculate_GIIP raises the domain error exactly when the magnitude of
\* the denominator of the form it selected is below 1e-10 and otherwise
\* returns numerator / denominator; called with the initial pressure it
\* raises, in the dry-gas and in the water form.
C14_SmallDenominatorRaises ==
    call.op = "calculate_GIIP" =>
        /\ ret.exc \in {"none", "ValueError"}
        /\ (ret.exc = "ValueError") <=> BelowTolerance(FAbs(SelectedForm.den))
        /\ ret.exc = "none" => ret.v = FDiv(SelectedForm.num, SelectedForm.den)
        /\ call.pressure = gas.Pi => ret.exc = "ValueError"

\* the z the P/Z method is to use, and the two pressure-over-z values
ClaimZ == IF call.z = None THEN PropAt("z", One, call.pressure) ELSE call.z
ClaimPz == FDiv(call.pressure, ClaimZ)
ClaimPzi == FDiv(gas.Pi, gas.Zi)

C16_ConstructionNeedsBgAndZ ==
    /\ (pvt.props["Bg"].t = "None" \/ pvt.props["z"].t = "None") =>
          (gas.constructed # "ok" /\ ret.exc # "none")
    /\ gas.constructed = "ok" =>
          /\ gas.Bgi # None /\ gas.Zi # None
          /\ gas.Bgi = PropAt("Bg", None, gas.Pi)
          /\ gas.Zi = PropAt("z", None, gas.Pi)

\* the constructor raised on a table that holds Bg but no z
C16_Witness ==
    /\ gas.constructed = "ValueError"
    /\ pvt.props["Bg"].t # "None"
    /\ pvt.props["z"].t = "None"

-----------------------------------------------------------------------------
(* SpecDAK: standing_katz_DAK.py, the Newton-Raphson iteration of the two
   Z-factor solvers, one step per pass of the loop.

   The value of an update, Z - f(Z) / f'(Z), goes through math.exp and powers
   that the rationals cannot follow.  The model computes what decides the
   control of the loop exactly (the division by Z * Tpr, the tolerance test,
   the iteration count) and lets the quotient be any value of UpdateValues,
   so every run of the source on such values is a run of the model. *)

\* the largest iteration cap given to the solvers
MaxIter == 3

DakSolvers == {"Z_StandingKatz_DAK", "Z_DAK_numerical_derivative"}

\* <<Ppr, Tpr>>: two physical conditions, and a temperature of 0
ReducedConditions == {<<One, Q(3, 2)>>, <<Q(2, 1), Q(3, 2)>>, <<One, Zero>>}

\* tol: the update of 1/20 passes the first; no update passes 0
Tolerances == {Q(1, 10), Q(1, 100), Zero}

\* the values an update may yield
UpdateValues == {One, Q(19, 20), Q(9, 10), NaN}

\* rho_r = 0.27 * Ppr / (Z * Tpr): Python raises ZeroDivisionError on a zero
\* divisor
RhoRaises(Z, Tpr) == FMul(Z, Tpr) = Zero

\* abs(Z_new - Z) < tol
Converged(Z_new, Z, tol) == FLt(FAbs(FSub(Z_new, Z)), tol)

\* the exception raised after the loop; the message of Z_StandingKatz_DAK
\* ends with the last Z, that of Z_DAK_numerical_derivative names max_iter only
ConvergenceError(op, Z) ==
    [exc |-> "Exception",
     reported |-> IF op = "Z_StandingKatz_DAK" THEN <<Z>> ELSE << >>]

\* the frame of a solver call: Z = 1.0 before the loop; trace keeps every
\* value Z_new was given
InitDAK ==
    \E op \in DakSolvers, c \in ReducedConditions, tol \in Tolerances,
       max_iter \in 0..MaxIter :
        /\ call = [op |-> op, Ppr |-> c[1], Tpr |-> c[2], tol |-> tol,
                   max_iter |-> max_iter]
        /\ threads = <<[pc |-> "loop", i |-> 0, Z |-> One, trace |-> << >>]>>
        /\ ret = [exc |-> "running"]
        /\ pvt = NoObject
        /\ oil = NoObject
        /\ gas = NoObject

\* one pass of 'for i in range(max_iter)'
DakIterate ==
    /\ threads # << >> /\ threads[1].pc = "loop"
    /\ threads[1].i < call.max_iter
    /\ LET t == threads[1] IN
       IF RhoRaises(t.Z, call.Tpr)
       THEN /\ ret' = [exc |-> "ZeroDivisionError"]
            /\ threads' = <<[t EXCEPT !.pc = "done"]>>
       ELSE \E Z_new \in UpdateValues :
               IF Converged(Z_new, t.Z, call.tol)
               THEN /\ ret' = [exc |-> "none", v |-> Z_new]
                    /\ threads' = <<[t EXCEPT !.pc = "done",
                                              !.trace = Append(@, Z_new)]>>
               ELSE /\ ret' = ret
                    /\ threads' = <<[t EXCEPT !.i = t.i + 1, !.Z = Z_new,
                                              !.trace = Append(@, Z_new)]>>
    /\ UNCHANGED <<pvt, oil, gas, call>>

\* the loop ran out: 'raise Exception(...)'
DakRaise ==
    /\ threads # << >> /\ threads[1].pc = "loop"
    /\ threads[1].i >= call.max_iter
    /\ ret' = ConvergenceError(call.op, threads[1].Z)
    /\ threads' = <<[threads[1] EXCEPT !.pc = "done"]>>
    /\ UNCHANGED <<pvt, oil, gas, call>>

NextDAK == DakIterate \/ DakRaise

SpecDAK == InitDAK /\ [][NextDAK]_vars

\* the value Z held before update j (1.0 before the first)
ZBefore(trace, j) == IF j = 1 THEN One ELSE trace[j - 1]

\* update j of the trace met the tolerance
Met(trace, j) == FLt(FAbs(FSub(trace[j], ZBefore(trace, j))), call.tol)

\* C17: a solver call makes at most max_iter updates, starting from Z = 1.0,
\* and then stops in one of two ways: it returns the value of an update that
\* met the tolerance (the only one that did), or, no update having met the
\* tolerance within the cap, it raises the convergence error, which reports
\* the last Z.
C17_BoundedNewton ==
    call.op \in DakSolvers =>
        LET t == threads[1] IN
        /\ Len(t.trace) <= call.max_iter
        /\ \A j \in 1..(Len(t.trace) - 1) : ~Met(t.trace, j)
        /\ t.pc = "loop" => (Len(t.trace) >= 1 => ~Met(t.trace, Len(t.trace)))
        /\ t.pc = "done" =>
              \/ /\ ret.exc = "none"
                 /\ Len(t.trace) >= 1
                 /\ ret.v = t.trace[Len(t.trace)]
                 /\ Met(t.trace, Len(t.trace))
              \/ /\ ret.exc = "Exception"
                 /\ Len(t.trace) = call.max_iter
                 /\ \A j \in 1..Len(t.trace) : ~Met(t.trace, j)
                 /\ ret.reported = <<ZBefore(t.trace, Len(t.trace) + 1)>>

-----------------------------------------------------------------------------
(* SpecTerms: calculate_expansion_terms called on its own *)

\* gas-cap ratios: none, a gas cap, and a negative value
GasCapRatios == {Zero, Q(1, 2), Q(-1, 2)}

InitTerms ==
    ConstructOil({TableDesc, TableAsc, TableOilOnly, TableZeroBg}, InitialPressures,
                 GasCapRatios)

TermsAt == \E p \in PressureGrid \cup {oil.Pi} : CallExpansionTerms(p)

NextTerms == TermsAt

SpecTerms == InitTerms /\ [][NextTerms]_vars

\* the three terms as the claim writes them, from the table's values
ClaimEo(p) ==
    FAdd(FSub(PropAt("Bo", None, p), PropAt("Bo", None, oil.Pi)),
         FMul(FSub(PropAt("Rs", None, oil.Pi), PropAt("Rs", None, p)),
              PropAt("Bg", None, p)))

ClaimEg(p) ==
    IF FLt(Zero, oil.m) /\ pvt.props["Bg"].t # "None"
    THEN FMul(PropAt("Bo", None, oil.Pi),
              FSub(FDiv(PropAt("Bg", None, p), PropAt("Bg", None, oil.Pi)), One))
    ELSE Zero

ClaimEfw(p) ==
    FMul(FMul(FMul(FAdd(One, oil.m), PropAt("Bo", None, oil.Pi)),
              FAdd(FMul(PropAt("cw", Q(43, 1000000), p), Q(2, 10)),
                   PropAt("cf", Q(43, 1000000), p))),
         FSub(oil.Pi, p))

\* C18: calculate_expansion_terms(p) returns (Eo, Eg, Efw) with
\* Eo = (Bo(p) - Boi) + (Rsi - Rs(p)) * Bg(p) (checked on the tables that
\* supply Bg); Eg = Boi * (Bg(p) / Bgi - 1) when m > 0 and Bgi is known, and 0
\* otherwise; Efw = (1 + m) * Boi * (cw * 0.2 + cf) * (Pi - p), cw and cf being
\* the table's values at p, each 43e-6 when its array was not supplied.
C18_ExpansionTerms ==
    call.op = "calculate_expansion_terms" =>
        /\ ret.exc = "none"
        /\ pvt.props["Bg"].t # "None" => ret.v[1] = ClaimEo(call.pressure)
        /\ ret.v[2] = ClaimEg(call.pressure)
        /\ ret.v[3] = ClaimEfw(call.pressure)

\* a call below the initial pressure on a model with a gas cap, whose
\* gas-cap term is not zero
C18_Witness ==
    /\ call.op = "calculate_expansion_terms"
    /\ FLt(Zero, oil.m) /\ oil.Bgi # None
    /\ FLt(call.pressure, oil.Pi)
    /\ ret.v[2] # Zero /\ ~IsNaN(ret.v[2]) /\ ret.v[3] # Zero

-----------------------------------------------------------------------------
(* SpecUnits: one reservoir entered in metric or in field units, as in
   examples/example_field_units.py comparison_example: the table and the model
   are built with the same unit system and the model is then solved with
   arguments in that unit system. *)

\* the constructor inputs of a table, in metric units
RawDesc ==
    [pressure |-> Floats(<<30, 20, 10>>),
     props |-> [NoProps EXCEPT !["Bo"] = Floats(<<4, 3, 2>>),
                               !["Rs"] = Floats(<<6, 4, 2>>),
                               !["co"] = Const(3, Q(1, 50)),
                               !["Bg"] = Floats(<<1, 2, 3>>),
                               !["z"]  = <<Q(6, 5), Q(1, 1), Q(4, 5)>>,
                               !["cg"] = Const(3, Q(1, 10)),
                               !["Bw"] = Floats(<<1, 1, 1>>),
                               !["cw"] = Const(3, Q(1, 20)),
                               !["cf"] = Const(3, Q(1, 100))]]

RawAsc ==
    [pressure |-> Floats(<<10, 20, 30>>),
     props |-> [NoProps EXCEPT !["Bo"] = Floats(<<2, 3, 4>>),
                               !["Rs"] = Floats(<<2, 4, 6>>),
                               !["Bg"] = Floats(<<3, 2, 1>>),
                               !["Bw"] = Floats(<<1, 1, 1>>),
                               !["cw"] = Const(3, Zero),
                               !["cf"] = Const(3, Zero)]]

RawTables == {RawDesc, RawAsc}

\* the quantity whose metric value is x, written in the given unit system
InUnits(x, factor, unit_system) ==
    IF unit_system = FIELD THEN FDiv(x, factor) ELSE x

PropertyFactor(a) ==
    IF a = "Rs" THEN SCFSTB_TO_M3M3
    ELSE IF a = "Bg" THEN RB_OVER_SCF
    ELSE IF a \in {"co", "cg", "cw", "cf"} THEN KGFCM2_TO_PSIA
    ELSE One

\* the same table written in the given unit system
RawIn(raw, unit_system) ==
    [pressure |-> [i \in 1..Len(raw.pressure) |->
                      InUnits(raw.pressure[i], PSIA_TO_KGFCM2, unit_system)],
     props |-> [a \in PropSet |->
                  [i \in 1..Len(raw.props[a]) |->
                      InUnits(raw.props[a][i], PropertyFactor(a), unit_system)]]]

\* 90 degrees Celsius, or 194 degrees Fahrenheit
TemperatureIn(unit_system) == IF unit_system = FIELD THEN Q(194, 1) ELSE Temperature

\* the state after PVTProperties(...) and OilReservoir(...) were built with
\* one unit system; call keeps the arguments of the table's constructor
InitUnits ==
    \E raw \in RawTables, us \in UnitSystem, Pi \in {Q(30, 1), Q(25, 1)},
       m \in {Zero, Q(1, 2)} :
        \E input \in {RawIn(raw, us)} :
            /\ pvt = PVTProperties(input.pressure, us, input.props)
            /\ oil = OilReservoir(pvt, InUnits(Pi, PSIA_TO_KGFCM2, us),
                                  TemperatureIn(us), m, FALSE, us)
            /\ oil.constructed = "ok"
            /\ gas = NoObject
            /\ call = [op |-> "__init__", unit_system |-> us,
                       pressure |-> input.pressure, props |-> input.props]
            /\ ret = [exc |-> "none"]
            /\ threads = << >>

\* <<Np, Gp, Wp>> of a solve, in metric units
UnitsInputs == {<<Q(2, 1), Zero, Zero>>, <<Zero, Q(20, 1), Zero>>, <<Zero, Zero, One>>}

\* calculate_STOIIP with the arguments written in the model's unit system
UnitsSolve ==
    \E in \in UnitsInputs, p \in {Q(20, 1), Q(15, 1), Q(10, 1)} :
        CallSTOIIP(InUnits(in[1], STB_TO_M3, oil.unit_system),
                   InUnits(in[2], SCF_TO_M3, oil.unit_system),
                   InUnits(in[3], STB_TO_M3, oil.unit_system),
                   InUnits(p, PSIA_TO_KGFCM2, oil.unit_system), Zero)

NextUnits == UnitsSolve

SpecUnits == InitUnits /\ [][NextUnits]_vars

\* the METRIC model of the same reservoir, and its answer to the metric
\* equivalent of the last call
MetricTwin == OilReservoir(pvt, oil.Pi, Temperature, oil.m, FALSE, METRIC)

TwinAnswer ==
    calculate_STOIIP(MetricTwin, pvt, FMul(call.Np, Q(158987, 1000000)),
                     FMul(call.Gp, Q(283168, 10000000)),
                     FMul(call.Wp, Q(158987, 1000000)),
                     FMul(call.pressure, Q(703069, 10000000)), Zero)

\* |a - b| / b < 0.01
WithinOnePercent(a, b) == FLt(FDiv(FAbs(FSub(a, b)), b), Q(1, 100))

\* C19: calculate_STOIIP on a model built with FIELD, called with field-unit
\* arguments, returns the STOIIP (within 1%) that the METRIC model of the same
\* reservoir returns for the equivalent metric arguments.
C19_FieldMatchesMetric ==
    (call.op = "calculate_STOIIP" /\ oil.unit_system = FIELD
        /\ TwinAnswer.exc = "none") =>
            /\ ret.exc = "none"
            /\ WithinOnePercent(ret.v, TwinAnswer.v)

\* the factor the claim gives for each array of a FIELD table
ClaimFactor(a) ==
    IF a = "Rs" THEN FDiv(Q(283168, 10000000), Q(158987, 1000000))
    ELSE IF a = "Bg" THEN FDiv(Q(158987, 1000000), Q(283168, 10000000))
    ELSE IF a \in {"co", "cg", "cw", "cf"} THEN Q(142233, 10000)
    ELSE One

Times(input, factor, unit_system) ==
    [i \in 1..Len(input) |->
        IF unit_system = FIELD THEN FMul(input[i], factor) ELSE input[i]]

\* the table holds the constructor's inputs as the claim converts them
StoredAsClaimed ==
    (call.op = "__init__" /\ "unit_system" \in DOMAIN call) =>
        /\ pvt.unit_system = METRIC
        /\ pvt.pressure.v = Times(call.pressure, Q(703069, 10000000), call.unit_system)
        /\ \A a \in PropSet :
              IF call.props[a] = << >> THEN pvt.props[a] = PyNone
              ELSE pvt.props[a].v = Times(call.props[a], ClaimFactor(a), call.unit_system)

-----------------------------------------------------------------------------
(* SpecTable: PVT tables and production records of 1..MaxRows rows, in either
   storage order and either unit system, and lookups on the tables *)

\* the largest number of rows of a table or a record
MaxRows == 3

\* row k of the tables, in metric units: the pressure 10 * k with its values
RowPressure(k) == Q(10 * k, 1)
RowValue(a, k) ==
    IF a = "Bo" THEN Q(k * k + 1, 1)
    ELSE IF a = "Rs" THEN Q(2 * k, 1)
    ELSE IF a = "Bg" THEN Q(6 - k, 1)
    ELSE Q(1, 20)

\* the properties the tables supply
TableProps == {"Bo", "Rs", "Bg", "cw"}

\* the rows 1..n in increasing or in decreasing pressure order
RowOrder(n, increasing) == [i \in 1..n |-> IF increasing THEN i ELSE n + 1 - i]

RawRows(n, increasing) ==
    [pressure |-> [i \in 1..n |-> RowPressure(RowOrder(n, increasing)[i])],
     props |-> [a \in PropSet |->
                  IF a \in TableProps
                  THEN [i \in 1..n |-> RowValue(a, RowOrder(n, increasing)[i])]
                  ELSE << >>]]

\* the state after PVTProperties(...) returned; call keeps its arguments
InitTable ==
    \E n \in 1..MaxRows, increasing \in BOOLEAN, us \in UnitSystem :
        \E input \in {RawIn(RawRows(n, increasing), us)} :
            /\ pvt = PVTProperties(input.pressure, us, input.props)
            /\ call = [op |-> "PVTProperties", unit_system |-> us,
                       pressure |-> input.pressure, props |-> input.props]
            /\ ret = [exc |-> "none"]
            /\ oil = NoObject
            /\ gas = NoObject
            /\ threads = << >>

\* pvt.interpolate_property(property_name, target_pressure)
InterpolateAt ==
    \E a \in TableProps \cup {"z"}, p \in PressureGrid :
        /\ call' = [op |-> "interpolate_property", property_name |-> a,
                    target_pressure |-> p]
        /\ ret' = interpolate_property(pvt, a, p)
        /\ UNCHANGED <<pvt, oil, gas, threads>>

\* the input series of a record of n points, in the record's unit system
RecordSeries(n) ==
    <<[i \in 1..n |-> Q(365 * (i - 1), 1)], [i \in 1..n |-> Q(i, 1)],
      [i \in 1..n |-> Q(5 * i, 1)], [i \in 1..n |-> Q(i - 1, 1)],
      [i \in 1..n |-> Q(300 - 10 * i, 1)]>>

\* ProductionData(time, Np, Gp, Wp, pressure, unit_system)
BuildRecord ==
    \E n \in 1..MaxRows, us \in UnitSystem :
        \E s \in {RecordSeries(n)} :
            /\ call' = [op |-> "ProductionData", unit_system |-> us, series |-> s]
            /\ ret' = [exc |-> "none",
                       v |-> ProductionData(s[1], s[2], s[3], s[4], s[5], us)]
            /\ UNCHANGED <<pvt, oil, gas, threads>>

\* GasProductionData(time, Gp, Wp, pressure, unit_system)
BuildGasRecord ==
    \E n \in 1..MaxRows, us \in UnitSystem :
        \E s \in {RecordSeries(n)} :
            /\ call' = [op |-> "GasProductionData", unit_system |-> us, series |-> s]
            /\ ret' = [exc |-> "none",
                       v |-> GasProductionData(s[1], s[3], s[4], s[5], us)]
            /\ UNCHANGED <<pvt, oil, gas, threads>>

NextTable == InterpolateAt \/ BuildRecord \/ BuildGasRecord

SpecTable == InitTable /\ [][NextTable]_vars

\* the samples of the table: pressures and the values of a property
SampleP == pvt.pressure.v
SampleV(a) == pvt.props[a].v
Samples == 1..Len(SampleP)

StrictlyMonotonic ==
    \/ \A i \in Samples : \A j \in Samples : i < j => FLt(SampleP[i], SampleP[j])
    \/ \A i \in Samples : \A j \in Samples : i < j => FLt(SampleP[j], SampleP[i])

\* no sample lies strictly between samples i and j
Neighbouring(i, j) ==
    /\ FLt(SampleP[i], SampleP[j])
    /\ \A k \in Samples : ~(FLt(SampleP[i], SampleP[k]) /\ FLt(SampleP[k], SampleP[j]))

\* the value on the straight line through samples i and j at x
OnLine(a, i, j, x) ==
    FAdd(SampleV(a)[i],
         FDiv(FMul(FSub(SampleV(a)[j], SampleV(a)[i]), FSub(x, SampleP[i])),
              FSub(SampleP[j], SampleP[i])))

\* C21: on a table of strictly increasing or strictly decreasing pressures,
\* interpolate_property of a supplied property returns the value of the
\* smallest-pressure sample below the sampled range, the value of the
\* largest-pressure sample above it, the sample's own value at a sampled
\* pressure, and the linear interpolation between two neighbouring samples.
C21_InterpolationHoldsBoundaries ==
    (call.op = "interpolate_property" /\ StrictlyMonotonic
        /\ pvt.props[call.property_name].t # "None") =>
        LET a == call.property_name
            x == call.target_pressure
        IN  /\ ret.exc = "none"
            /\ \A i \in Samples :
                  /\ (\A k \in Samples : FLe(SampleP[i], SampleP[k])) /\ FLt(x, SampleP[i])
                        => ret.v = SampleV(a)[i]
                  /\ (\A k \in Samples : FLe(SampleP[k], SampleP[i])) /\ FLt(SampleP[i], x)
                        => ret.v = SampleV(a)[i]
                  /\ x = SampleP[i] => ret.v = SampleV(a)[i]
                  /\ \A j \in Samples :
                        (Neighbouring(i, j) /\ FLt(SampleP[i], x) /\ FLt(x, SampleP[j]))
                            => ret.v = OnLine(a, i, j, x)

\* the table holding the same rows in the opposite storage order
Reordered(table) ==
    [table EXCEPT !.pressure = [@ EXCEPT !.v = Reverse(@)],
                  !.props = [a \in PropSet |->
                                IF table.props[a].t = "None" THEN PyNone
                                ELSE [table.props[a] EXCEPT !.v = Reverse(@)]]]

StoredDecreasing ==
    \A i \in Samples : \A j \in Samples : i < j => FLt(SampleP[j], SampleP[i])

\* C22: on a table stored in decreasing pressure order, a lookup of a supplied
\* property returns what the same lookup returns on the table holding the same
\* rows in increasing order, and the lookup leaves the stored table as it was.
C22_OrderIndependent ==
    [][(call'.op = "interpolate_property" /\ StoredDecreasing
            /\ pvt.props[call'.property_name].t # "None") =>
        /\ ret' = interpolate_property(Reordered(pvt), call'.property_name,
                                       call'.target_pressure)
        /\ pvt' = pvt]_vars

\* a lookup between two samples of a decreasing table of several rows
C22_Witness ==
    /\ call.op = "interpolate_property" /\ StoredDecreasing /\ Len(SampleP) >= 3
    /\ ret.exc = "none"
    /\ \E i \in Samples : \E j \in Samples :
          /\ Neighbouring(i, j)
          /\ FLt(SampleP[i], call.target_pressure)
          /\ FLt(call.target_pressure, SampleP[j])
          /\ SampleV(call.property_name)[i] # SampleV(call.property_name)[j]

\* a stored value is an indexable sequence of n entries
Indexable(a, n) == IsArray(a) /\ Len(a.v) = n

\* C23: a PVT table or a production record built from parallel sequences of
\* n >= 1 entries, in either unit system, stores every array (pressure and
\* each supplied property; time, Np, Gp, Wp, pressure) as an indexable
\* sequence of exactly n entries.
C23_StoredArraysKeepLength ==
    /\ call.op = "PVTProperties" =>
          /\ Indexable(pvt.pressure, Len(call.pressure))
          /\ \A a \in PropSet :
                call.props[a] # << >> => Indexable(pvt.props[a], Len(call.pressure))
    /\ call.op = "ProductionData" =>
          \A f \in {"time", "Np", "Gp", "Wp", "pressure"} :
              Indexable(ret.v[f], Len(call.series[1]))
    /\ call.op = "GasProductionData" =>
          \A f \in {"time", "Gp", "Wp", "pressure"} :
              Indexable(ret.v[f], Len(call.series[1]))

-----------------------------------------------------------------------------
(* SpecConv: units.py, every UnitConverter conversion applied to scalars and
   to sequences, and each result converted back with the same unit system *)

RB_TO_M3       == Q(158987, 1000000)
M3_TO_STB      == Q(628981, 100000)
M3_TO_RB       == Q(628981, 100000)
M3_TO_SCF      == Q(353147, 10000)
M3M3_TO_SCFSTB == FDiv(M3_TO_SCF, M3_TO_STB)

\* the converter body that multiplies whatever the unit system is
ConvertedAlways(value, factor, system) ==
    to_scalar_if_single(Scale(to_array(value), factor))

\* the body shared by the converters: to_array, one multiplication when the
\* system is FIELD, to_scalar_if_single
Converted(value, factor, system) ==
    to_scalar_if_single(IF system = FIELD THEN Scale(to_array(value), factor)
                        ELSE to_array(value))

\* bo_to_metric, bw_to_metric and their inverses: 'result = b' in both branches
Unscaled(value) == to_scalar_if_single(to_array(value))

\* UnitConverter.temperature_from_kelvin
temperature_from_kelvin(temp_k, to_system) ==
    IF to_system = FIELD
    THEN FAdd(FDiv(FMul(FSub(temp_k, Q(27315, 100)), Q(9, 1)), Q(5, 1)), Q(32, 1))
    ELSE FSub(temp_k, Q(27315, 100))

Quantities ==
    {"pressure", "oil_volume", "gas_volume", "reservoir_volume", "rs", "bg", "bo", "bw",
     "compressibility", "temperature"}

\* UnitConverter.<quantity>_to_metric (temperature_to_kelvin for temperature)
ToMetric(q, value, from_system) ==
    IF q = "pressure" THEN pressure_to_metric(value, from_system)
    ELSE IF q = "oil_volume" THEN oil_volume_to_metric(value, from_system)
    ELSE IF q = "gas_volume" THEN gas_volume_to_metric(value, from_system)
    ELSE IF q = "reservoir_volume" THEN Converted(value, RB_TO_M3, from_system)
    ELSE IF q = "rs" THEN Converted(value, SCFSTB_TO_M3M3, from_system)
    ELSE IF q = "bg"
         THEN to_scalar_if_single(
                  IF from_system = FIELD
                  THEN Scale(Scale(to_array(value), RB_TO_M3), FInv(SCF_TO_M3))
                  ELSE to_array(value))
    ELSE IF q = "compressibility" THEN Converted(value, KGFCM2_TO_PSIA, from_system)
    ELSE IF q = "temperature"
         THEN PyFloat(temperature_to_kelvin(value.v[1], from_system))
    ELSE Unscaled(value)

\* UnitConverter.<quantity>_from_metric (temperature_from_kelvin for temperature)
FromMetric(q, value, to_system) ==
    IF q = "pressure" THEN Converted(value, KGFCM2_TO_PSIA, to_system)
    ELSE IF q = "oil_volume" THEN Converted(value, M3_TO_STB, to_system)
    ELSE IF q = "gas_volume" THEN Converted(value, M3_TO_SCF, to_system)
    ELSE IF q = "reservoir_volume" THEN Converted(value, M3_TO_RB, to_system)
    ELSE IF q = "rs" THEN Converted(value, M3M3_TO_SCFSTB, to_system)
    ELSE IF q = "bg"
         THEN to_scalar_if_single(
                  IF to_system = FIELD
                  THEN Scale(Scale(to_array(value), SCF_TO_M3), FInv(RB_TO_M3))
                  ELSE to_array(value))
    ELSE IF q = "compressibility" THEN Converted(value, PSIA_TO_KGFCM2, to_system)
    ELSE IF q = "temperature"
         THEN PyFloat(temperature_from_kelvin(value.v[1], to_system))
    ELSE Unscaled(value)

\* the longest sequence given to a converter
MaxValues == 3

\* a Python list given as argument
PyList(s) == [t |-> "list", v |-> s]

\* the k-th input value of a quantity.  The values of the scaled quantities
\* are k divided by one of the two factors of the quantity, so that the
\* converted value and the value converted back are fractions of 32-bit
\* numerator and denominator.
InputValue(q, k) ==
    IF q = "pressure" THEN FDiv(Q(k, 1), KGFCM2_TO_PSIA)
    ELSE IF q \in {"oil_volume", "reservoir_volume"} THEN FDiv(Q(k, 1), M3_TO_STB)
    ELSE IF q = "gas_volume" THEN FDiv(Q(k, 1), M3_TO_SCF)
    ELSE IF q = "rs" THEN FDiv(Q(k, 1), SCFSTB_TO_M3M3)
    ELSE IF q = "bg" THEN FDiv(Q(k, 1), RB_OVER_SCF)
    ELSE IF q = "compressibility" THEN FDiv(Q(k, 1), PSIA_TO_KGFCM2)
    ELSE IF q = "temperature" THEN Q(90 * k, 1)
    ELSE Q(5 * k, 4)

\* the arguments of a conversion: a scalar, or a list of 1..MaxValues values
\* (the temperature functions take a scalar)
InputsOf(q) ==
    {PyFloat(InputValue(q, k)) : k \in 1..2}
    \cup (IF q = "temperature" THEN {}
          ELSE {PyList([i \in 1..n |-> InputValue(q, i)]) : n \in 1..MaxValues})

InitConv ==
    /\ call = [op |-> "__init__"]
    /\ ret = [exc |-> "none"]
    /\ pvt = NoObject
    /\ oil = NoObject
    /\ gas = NoObject
    /\ threads = << >>

\* converter.<quantity>_to_metric(value, system)
Convert ==
    \E q \in Quantities, system \in UnitSystem :
        \E value \in InputsOf(q) :
            /\ call' = [op |-> "to_metric", quantity |-> q, system |-> system,
                        value |-> value, x |-> value]
            /\ ret' = [exc |-> "none", v |-> ToMetric(q, value, system)]
            /\ UNCHANGED <<pvt, oil, gas, threads>>

\* converter.<quantity>_from_metric(result, system) on the result of the
\* last conversion; x keeps the value the round trip started from
ConvertBack ==
    /\ call.op = "to_metric"
    /\ call' = [call EXCEPT !.op = "from_metric", !.value = ret.v]
    /\ ret' = [exc |-> "none", v |-> FromMetric(call.quantity, ret.v, call.system)]
    /\ UNCHANGED <<pvt, oil, gas, threads>>

NextConv == Convert \/ ConvertBack

SpecConv == InitConv /\ [][NextConv]_vars

BigOf(n) == <<n % 10000, (n \div 10000) % 10000, n \div 100000000>>

RECURSIVE BigMulSmall(_, _, _)
BigMulSmall(a, d, carry) ==
    IF a = << >> THEN (IF carry = 0 THEN << >> ELSE <<carry>>)
    ELSE <<(Head(a) * d + carry) % 10000>>
         \o BigMulSmall(Tail(a), d, (Head(a) * d + carry) \div 10000)

RECURSIVE BigAdd(_, _, _)
BigAdd(a, b, carry) ==
    IF a = << >> /\ b = << >> THEN (IF carry = 0 THEN << >> ELSE <<carry>>)
    ELSE LET x == IF a = << >> THEN 0 ELSE Head(a)
             y == IF b = << >> THEN 0 ELSE Head(b)
         IN  <<(x + y + carry) % 10000>>
             \o BigAdd(IF a = << >> THEN a ELSE Tail(a),
                       IF b = << >> THEN b ELSE Tail(b), (x + y + carry) \div 10000)

RECURSIVE BigMul(_, _)
BigMul(a, b) ==
    IF b = << >> THEN << >>
    ELSE BigAdd(BigMulSmall(a, Head(b), 0), <<0>> \o BigMul(a, Tail(b)), 0)

RECURSIVE BigTrim(_)
BigTrim(a) ==
    IF a = << >> \/ a[Len(a)] # 0 THEN a ELSE BigTrim(SubSeq(a, 1, Len(a) - 1))

RECURSIVE BigLeSameLen(_, _)
BigLeSameLen(a, b) ==
    IF a = << >> THEN TRUE
    ELSE IF a[Len(a)] # b[Len(b)] THEN a[Len(a)] < b[Len(b)]
    ELSE BigLeSameLen(SubSeq(a, 1, Len(a) - 1), SubSeq(b, 1, Len(b) - 1))

BigLe(a, b) ==
    LET TrimmedLe(x, y) ==
            IF Len(x) # Len(y) THEN Len(x) < Len(y) ELSE BigLeSameLen(x, y)
    IN  TrimmedLe(BigTrim(a), BigTrim(b))

\* |back - x| <= x / 1000000 for positive fractions back = p/q and x = r/s:
\* 999999 * r * q <= 1000000 * p * s <= 1000001 * r * q
WithinRelativeTolerance(back, x) ==
    LET Between(ps, rq) ==
            /\ BigLe(BigMul(rq, BigOf(999999)), BigMul(ps, BigOf(1000000)))
            /\ BigLe(BigMul(ps, BigOf(1000000)), BigMul(rq, BigOf(1000001)))
    IN  Between(BigMul(BigOf(back[1]), BigOf(x[2])), BigMul(BigOf(x[1]), BigOf(back[2])))

\* C25: for every quantity and every value x, x converted from FIELD to
\* metric and back to FIELD is x within 1e-6 relative tolerance.
C25_RoundTripWithinTolerance ==
    (call.op = "from_metric" /\ call.system = FIELD) =>
        /\ Len(ret.v.v) = Len(call.x.v)
        /\ \A i \in 1..Len(call.x.v) :
              WithinRelativeTolerance(ret.v.v[i], call.x.v[i])

\* scalar, or sequence of n values
Shape(value) == IF value.t = "float" THEN <<"scalar">> ELSE <<"sequence", Len(value.v)>>

\* C26: every conversion returns a result of the shape of its input: a scalar
\* for a scalar, a sequence of n values for a sequence of n values, n = 1
\* included.
C26_ShapePreserved ==
    call.op \in {"to_metric", "from_metric"} => Shape(ret.v) = Shape(call.value)

-----------------------------------------------------------------------------
(* SpecDarcy: darcy_flow.py, the construction of DarcyFlowParameters and
   DarcyRadialFlow.calculate on the objects that were constructed *)

CONSTANT_FIELD  == Q(7082153, 1000000000)
CONSTANT_METRIC == Q(543439, 1000000)

\* np.log of the two radius ratios the model uses, to one decimal:
\* ln(10000) = 9.2, ln(100) = 4.6
NpLog(x) == IF x = Q(10000, 1) THEN Q(92, 10) ELSE Q(46, 10)

\* the validation with no check that a specification was given
DarcyParametersUnderSpecified(p) ==
    LET pressure_given == p.Pe # None /\ p.Pwf # None
        flow_given == p.q # None
        Raise(why) == [exc |-> "ValueError", why |-> why]
    IN  IF pressure_given /\ flow_given THEN Raise("both specified")
        ELSE IF \E f \in {"k", "h", "mu", "Bo", "re", "rw"} : FLe(p[f], Zero)
        THEN Raise("not positive")
        ELSE IF FLe(p.re, p.rw) THEN Raise("re <= rw")
        ELSE IF pressure_given /\ (FLe(p.Pe, Zero) \/ FLe(p.Pwf, Zero))
        THEN Raise("not positive")
        ELSE IF pressure_given /\ FLe(p.Pe, p.Pwf) THEN Raise("Pe <= Pwf")
        ELSE IF flow_given /\ FLe(p.q, Zero) THEN Raise("not positive")
        ELSE [exc |-> "none"]

\* DarcyFlowParameters.__post_init__ on the fields p: what it raises, if
\* anything
DarcyFlowParameters(p) ==
    LET pressure_given == p.Pe # None /\ p.Pwf # None
        flow_given == p.q # None
        Raise(why) == [exc |-> "ValueError", why |-> why]
    IN  IF pressure_given /\ flow_given THEN Raise("both specified")
        ELSE IF ~pressure_given /\ ~flow_given THEN Raise("neither specified")
        ELSE IF \E f \in {"k", "h", "mu", "Bo", "re", "rw"} : FLe(p[f], Zero)
        THEN Raise("not positive")
        ELSE IF FLe(p.re, p.rw) THEN Raise("re <= rw")
        ELSE IF pressure_given /\ (FLe(p.Pe, Zero) \/ FLe(p.Pwf, Zero))
        THEN Raise("not positive")
        ELSE IF pressure_given /\ FLe(p.Pe, p.Pwf) THEN Raise("Pe <= Pwf")
        ELSE IF flow_given /\ FLe(p.q, Zero) THEN Raise("not positive")
        ELSE [exc |-> "none"]

\* DarcyRadialFlow.calculate_flow_rate
calculate_flow_rate(constant, params) ==
    IF params.Pe = None \/ params.Pwf = None
    THEN [exc |-> "ValueError", why |-> "missing input"]
    ELSE LET Results(dP, ln_term, ckh) ==
                LET With(q) ==
                        [exc |-> "none", q |-> q, dP |-> dP, Pe |-> params.Pe,
                         Pwf |-> params.Pwf,
                         productivity_index |-> IF FLt(Zero, dP) THEN FDiv(q, dP) ELSE Zero,
                         skin_effect_pressure |->
                             FDiv(FMul(FMul(FMul(q, params.mu), params.Bo), params.S), ckh),
                         ideal_dP |->
                             FDiv(FMul(FMul(FMul(q, params.mu), params.Bo),
                                       NpLog(FDiv(params.re, params.rw))), ckh),
                         ln_term |-> ln_term]
                IN  With(FDiv(FMul(ckh, dP), FMul(FMul(params.mu, params.Bo), ln_term)))
         IN  Results(FSub(params.Pe, params.Pwf),
                     FAdd(NpLog(FDiv(params.re, params.rw)), params.S),
                     FMul(FMul(constant, params.k), params.h))

\* DarcyRadialFlow.calculate_pressure_drawdown
calculate_pressure_drawdown(constant, params) ==
    IF params.q = None
    THEN [exc |-> "ValueError", why |-> "missing input"]
    ELSE LET Results(ln_term, ckh) ==
                LET With(dP) ==
                        IF params.Pe # None /\ params.Pwf = None
                           /\ FLt(FSub(params.Pe, dP), Zero)
                        THEN [exc |-> "ValueError", why |-> "negative Pwf"]
                        ELSE [exc |-> "none", dP |-> dP,
                              Pe |-> IF params.Pwf # None /\ params.Pe = None
                                     THEN FAdd(params.Pwf, dP) ELSE params.Pe,
                              Pwf |-> IF params.Pe # None /\ params.Pwf = None
                                      THEN FSub(params.Pe, dP) ELSE params.Pwf,
                              q |-> params.q,
                              productivity_index |->
                                  IF FLt(Zero, dP) THEN FDiv(params.q, dP) ELSE Zero,
                              skin_effect_pressure |->
                                  FDiv(FMul(FMul(FMul(params.q, params.mu), params.Bo),
                                            params.S), ckh),
                              ideal_dP |->
                                  FDiv(FMul(FMul(FMul(params.q, params.mu), params.Bo),
                                            NpLog(FDiv(params.re, params.rw))), ckh),
                              ln_term |-> ln_term]
                IN  With(FDiv(FMul(FMul(FMul(params.q, params.mu), params.Bo), ln_term),
                              ckh))
         IN  Results(FAdd(NpLog(FDiv(params.re, params.rw)), params.S),
                     FMul(FMul(constant, params.k), params.h))

\* DarcyRadialFlow.calculate
calculate(constant, params) ==
    IF params.q = None THEN calculate_flow_rate(constant, params)
    ELSE calculate_pressure_drawdown(constant, params)

\* <<k, re, rw>>: a valid rock and geometry, a narrower drainage radius, a
\* permeability of 0, and re = rw
DarcyRock ==
    {<<Q(100, 1), Q(1000, 1), Q(1, 10)>>, <<Q(100, 1), Q(10, 1), Q(1, 10)>>,
     <<Zero, Q(1000, 1), Q(1, 10)>>, <<Q(100, 1), Q(1, 10), Q(1, 10)>>}

DarcyFlows     == {None, Q(50, 1), Q(150, 1), Zero}
DarcyPressures == {None, Q(20, 1), Q(10, 1), Q(-5, 1)}

\* the state after DarcyFlowParameters(...) returned or raised; call keeps
\* the fields
InitDarcy ==
    \E rock \in DarcyRock, S \in {Zero, Q(2, 1)}, q \in DarcyFlows,
       Pe \in DarcyPressures, Pwf \in DarcyPressures :
        \E p \in {[op |-> "DarcyFlowParameters", k |-> rock[1], h |-> Q(100, 1),
                   mu |-> One, Bo |-> Q(6, 5), re |-> rock[2], rw |-> rock[3],
                   S |-> S, q |-> q, Pe |-> Pe, Pwf |-> Pwf]} :
            /\ call = p
            /\ ret = DarcyFlowParameters(p)
            /\ pvt = NoObject
            /\ oil = NoObject
            /\ gas = NoObject
            /\ threads = << >>

\* DarcyRadialFlow(unit_system).calculate(params) on a constructed object
DarcyCalculate ==
    /\ call.op = "DarcyFlowParameters" /\ ret.exc = "none"
    /\ \E unit_system \in UnitSystem :
          /\ call' = [call EXCEPT !.op = "calculate"]
          /\ ret' = calculate(IF unit_system = METRIC THEN CONSTANT_METRIC
                              ELSE CONSTANT_FIELD, call)
    /\ UNCHANGED <<pvt, oil, gas, threads>>

NextDarcy == DarcyCalculate

SpecDarcy == InitDarcy /\ [][NextDarcy]_vars

\* C27: the construction raises when q is given together with both Pe and
\* Pwf, and when neither q nor the pair (Pe, Pwf) is given (so it succeeds
\* only with exactly one of the two specifications); a constructed object
\* with q absent has both pressures with Pe > Pwf > 0; and calculate never
\* fails for a missing input.
C27_ExactlyOneSpecification ==
    /\ call.op = "DarcyFlowParameters" =>
          /\ (call.q # None /\ call.Pe # None /\ call.Pwf # None) => ret.exc = "ValueError"
          /\ (call.q = None /\ (call.Pe = None \/ call.Pwf = None)) => ret.exc = "ValueError"
          /\ (ret.exc = "none" /\ call.q = None) =>
                /\ call.Pe # None /\ call.Pwf # None
                /\ FLt(call.Pwf, call.Pe) /\ FLt(Zero, call.Pwf)
    /\ call.op = "calculate" =>
          ret.exc = "none" \/ ret.why # "missing input"

\* a flow rate calculated from an object built with the two pressures
C27_Witness ==
    /\ call.op = "calculate" /\ call.q = None
    /\ ret.exc = "none" /\ FLt(Zero, ret.q)


-----------------------------------------------------------------------------
(* the breakdown lists over a sequence of oil solves *)

\* production histories given to the batch solve: the initial point and two
\* later ones, the initial point and one later one, and the initial point twice
BreakdownHistories ==
    {OilHistory, SubSeq(OilHistory, 1, 2), <<OilHistory[1], OilHistory[1]>>}

InitBreakdown ==
    ConstructOil({TableRigid, TableZeroBg}, {Q(30, 1)}, {Zero, Q(1, 2)})

BreakdownSingle ==
    \E Np \in {Q(2, 1), Q(4, 1)}, p \in {Q(20, 1), Q(10, 1), oil.Pi} :
        CallSTOIIP(Np, Q(20, 1), One, p, Zero)

BreakdownBatch ==
    \E h \in BreakdownHistories :
        CallSTOIIPBatch(OilSeries(h, oil.Pi), METRIC, PyNone)

NextBreakdown ==
    \/ BreakdownSingle
    \/ BreakdownBatch

SpecBreakdown == InitBreakdown /\ [][NextBreakdown]_vars

ExpansionLists == BreakdownLists \ {"pressure_values"}

\* the estimates of a finished batch solve: the returned array, or, when the
\* aggregate error was raised, the invalid marker at every point
Estimates(c, r) ==
    IF r.exc = "none" THEN r.N_values ELSE [i \in 1..Len(c.series[1]) |-> NaN]

\* the breakdown lists of self are those of the finished batch solve c with
\* result r
BreakdownOf(self, c, r) ==
    /\ \A f \in BreakdownLists : Len(self[f]) = Len(c.series[1])
    /\ \A i \in 1..Len(c.series[1]) :
          /\ self.pressure_values[i] = c.series[5][i]
          /\ \A f \in ExpansionLists :
                (self[f][i] = NaN) <=> (Estimates(c, r)[i] = NaN)

\* C28: a batch solve that returns or raises the aggregate error leaves six
\* breakdown lists of the length of its series, with the pressure of point i
\* at position i and NaN in the five expansion lists exactly where the
\* estimate is NaN, whatever the lists held before; a single-point solve
\* leaves the six lists as they are.
C28_BreakdownOfLatestBatch ==
    [][/\ (/\ call'.op = "calculate_STOIIP_from_production_data"
           /\ ret'.exc \in {"none", "ValueError"}) => BreakdownOf(oil', call', ret')
       /\ call'.op = "calculate_STOIIP" =>
             \A f \in BreakdownLists : oil'[f] = oil[f]]_vars


-----------------------------------------------------------------------------
(* the gas balance without a water term *)

\* the same gas model constructed with the other value of the aquifer flag
OtherFlag(self) == [self EXCEPT !.aquifer_influx = ~@]

\* C29: for Wp = 0 and We = 0, calculate_GIIP gives the same result (the same
\* G, or the same error) as the model constructed with the other value of the
\* aquifer-influx flag gives for the same Gp and pressure.
C29_FormsAgreeWithoutWater ==
    (call.op = "calculate_GIIP" /\ call.Wp = Zero /\ call.We = Zero) =>
        ret = calculate_GIIP(OtherFlag(gas), pvt, call.Gp, call.pressure, Zero, Zero)


-----------------------------------------------------------------------------
(* the method argument of the gas batch solve *)

\* method values: the two documented ones and strings that are neither
Methods == {"standard", "pz", "PZ", "p/z", ""}

InitMethod ==
    ConstructGas({TableRigid, TableRigidAsc}, {Q(30, 1)}, BOOLEAN)

MethodBatch ==
    /\ gas.constructed = "ok"
    /\ call.op = "__init__"
    /\ \E n \in 1..2 : \E points \in [1..n -> GasPoints] :
       \E We \in InfluxChoices(n), method \in Methods :
          CallGIIPBatch(GasSeries(points, gas.Pi), METRIC, We, method)

NextMethod == MethodBatch

SpecMethod == InitMethod /\ [][NextMethod]_vars

\* the series as the batch solve holds it, and the influx it uses
MethodData ==
    GasProductionData(call.series[1], call.series[2], call.series[3], call.series[4],
                      call.unit_system)

MethodInflux ==
    IF call.We_values = PyNone THEN NpZeros(Len(call.series[1])) ELSE call.We_values

\* the entry of point i (0-based) under the method the claim assigns: NaN
\* when the point cannot be read or its method raises
MethodEntry(i) ==
    LET Outcome(readable, r) == IF readable /\ r.exc = "none" THEN r.v ELSE NaN
    IN  IF call.method = "pz"
        THEN Outcome(Subscriptable(MethodData.Gp, i) /\ Subscriptable(MethodData.pressure, i),
                   PzMethodTableZ(gas, pvt, At(MethodData.Gp, i),
                                  At(MethodData.pressure, i), None))
        ELSE Outcome(/\ Subscriptable(MethodData.Gp, i)
                   /\ Subscriptable(MethodData.pressure, i)
                   /\ Subscriptable(MethodData.Wp, i)
                   /\ Subscriptable(MethodInflux, i),
                   calculate_GIIP(gas, pvt, At(MethodData.Gp, i),
                                  At(MethodData.pressure, i), At(MethodData.Wp, i),
                                  At(MethodInflux, i)))

\* C30: calculate_GIIP_from_production_data raises nothing but the aggregate
\* error, whatever the method; the entry of every point is that of the P/Z
\* method with the table's z when method is 'pz', and that of the standard
\* method with the point's Wp and We for every other method; the aggregate
\* error is raised only when no point has an entry.
C30_MethodNeverRejected ==
    call.op = "calculate_GIIP_from_production_data" =>
        /\ ret.exc \in {"none", "ValueError"}
        /\ ret.exc = "none" =>
              \A i \in 1..Len(call.series[1]) : ret.N_values[i] = MethodEntry(i - 1)
        /\ ret.exc = "ValueError" =>
              \A i \in 1..Len(call.series[1]) : MethodEntry(i - 1) = NaN

\* an unrecognised method solved a point with nonzero Wp and We, and the
\* entry differs from what the P/Z method gives for that point
C30_Witness ==
    /\ call.op = "calculate_GIIP_from_production_data"
    /\ call.method \notin {"standard", "pz"}
    /\ ret.exc = "none"
    /\ \E i \in 1..Len(call.series[1]) :
          /\ ret.N_values[i] # NaN
          /\ call.series[3][i] # Zero
          /\ call.We_values # PyNone
          /\ ret.N_values[i] # PzMethodTableZ(gas, pvt, call.series[2][i],
                                              call.series[4][i], None).v

====
